---- MODULE Spec2Model ----
(***************************************************************************)
(* A model of yat, a hierarchical todo list manager for the terminal.      *)
(*   src/src/todo.rs  the ToDo tree and its text format                     *)
(*   src/src/lib.rs   the View controller: load, command loop, dialogues   *)
(*   src/src/main.rs  start-up                                             *)
(* Strings are sequences of characters; a character is named by a string.  *)
(* Byte offsets are kept as the code keeps them: an offset into the UTF-8  *)
(* encoding, which need not fall on a character boundary.                   *)
(***************************************************************************)
EXTENDS Integers, Sequences, FiniteSets, TLC

(***************************************************************************)
(* Option<T>, Weak<T>                                                       *)
(***************************************************************************)
None == << >>

Some(x) == << x >>

IsSome(o) == o # None

Unwrap(o) == o[1]

(***************************************************************************)
(* Bounds of the model                                                      *)
(***************************************************************************)
\* most lines of a save file drawn at start-up
MaxLines == 3

\* most ToDo nodes below the root that the command loop may create
MaxNodes == 2

\* longest text typed into a dialogue, in characters
MaxLen == 1

\* a dialogue takes no further character once its width counter is this large
MaxCols == 2

(***************************************************************************)
(* Characters and UTF-8 strings                                             *)
(***************************************************************************)
\* "ae": a 2-byte, 1-column letter; "zh": a 3-byte, 2-column ideograph;
\* "cm": a 2-byte, 0-column combining mark; "tab": a control character.
Utf8Len(ch) ==
  CASE ch = "ae" -> 2
    [] ch = "cm" -> 2
    [] ch = "zh" -> 3
    [] OTHER -> 1

\* UnicodeWidthChar::width: None for a control character
CharWidth(ch) ==
  CASE ch = "tab" -> None
    [] ch = "cm" -> Some(0)
    [] ch = "zh" -> Some(2)
    [] OTHER -> Some(1)

RECURSIVE ByteLen(_)
\* str::len: the length in bytes
ByteLen(s) == IF s = << >> THEN 0 ELSE Utf8Len(Head(s)) + ByteLen(Tail(s))

RECURSIVE StrWidth(_)
\* UnicodeWidthStr::width: the sum of the characters' widths
StrWidth(s) ==
  IF s = << >> THEN 0
  ELSE (IF IsSome(CharWidth(Head(s))) THEN Unwrap(CharWidth(Head(s))) ELSE 0)
       + StrWidth(Tail(s))

BytesUpTo(s, k) == ByteLen(SubSeq(s, 1, k))

\* str::is_char_boundary
IsCharBoundary(s, i) == \E k \in 0..Len(s) : BytesUpTo(s, k) = i

\* the number of characters in front of byte offset i (a boundary)
CharsBefore(s, i) == CHOOSE k \in 0..Len(s) : BytesUpTo(s, k) = i

\* &s[i..j] for boundaries i <= j
ByteSlice(s, i, j) == SubSeq(s, CharsBefore(s, i) + 1, CharsBefore(s, j))

\* &s[i..]
ByteSliceFrom(s, i) == SubSeq(s, CharsBefore(s, i) + 1, Len(s))

IsWhitespace(ch) == ch \in {" ", "tab", "\r"}

RECURSIVE TrimStart(_)
\* str::trim_start
TrimStart(s) ==
  IF s # << >> /\ IsWhitespace(Head(s)) THEN TrimStart(Tail(s)) ELSE s

RECURSIVE LeadingSpaces(_)
\* the loop of tab_num: count the leading ' ' characters
LeadingSpaces(s) ==
  IF s # << >> /\ Head(s) = " " THEN 1 + LeadingSpaces(Tail(s)) ELSE 0

TabWidth == 4

\* tab_num with a fault: a started group of four spaces counts
tab_num_RoundsUp(line) == (LeadingSpaces(line) + TabWidth - 1) \div TabWidth

\* tab_num
tab_num(line) == LeadingSpaces(line) \div TabWidth

RECURSIVE Lines(_)
\* str::lines: split at "\n", a "\r" in front of the "\n" is dropped, the
\* last line need not be terminated
Lines(s) ==
  IF s = << >> THEN << >>
  ELSE LET nl == {i \in 1..Len(s) : s[i] = "\n"}
           k == IF nl = {} THEN Len(s) + 1
                ELSE CHOOSE i \in nl : \A j \in nl : i <= j
           raw == SubSeq(s, 1, k - 1)
           line == IF k <= Len(s) /\ raw # << >> /\ raw[Len(raw)] = "\r"
                   THEN SubSeq(raw, 1, Len(raw) - 1) ELSE raw
       IN  << line >> \o Lines(SubSeq(s, k + 1, Len(s)))

RECURSIVE Repeat(_, _)
\* str::repeat
Repeat(s, n) == IF n = 0 THEN << >> ELSE s \o Repeat(s, n - 1)

(***************************************************************************)
(* todo.rs: the ToDo node.  The tree is an arena: a function from the ids  *)
(* of the live nodes to their fields.                                       *)
(***************************************************************************)
\* Priority with its derived ordering, under Option: None < Low < Medium < High
PriorityRank(p) ==
  CASE p = None -> 0
    [] p = Some("Low") -> 1
    [] p = Some("Medium") -> 2
    [] p = Some("High") -> 3

\* ToDoNew with a fault: the parent is not recorded
ToDoNew_NoParent(task, parent) ==
  [task |-> task, complete |-> FALSE, priority |-> None,
   parent |-> None, sub_tasks |-> << >>]

\* ToDo::new
ToDoNew(task, parent) ==
  [task |-> task, complete |-> FALSE, priority |-> None,
   parent |-> parent, sub_tasks |-> << >>]

\* Weak::upgrade in arena t
Upgrade(t, w) == IF IsSome(w) /\ Unwrap(w) \in DOMAIN t THEN w ELSE None

\* ToDo::to_string
to_string(n) ==
  (IF n.complete THEN << "[", "X", "]", " " >> ELSE << "[", " ", "]", " " >>)
  \o (CASE n.priority = Some("Low") -> << "(", "C", ")", " " >>
        [] n.priority = Some("Medium") -> << "(", "B", ")", " " >>
        [] n.priority = Some("High") -> << "(", "A", ")", " " >>
        [] n.priority = None -> << "(", " ", ")", " " >>)
  \o n.task \o << "\n" >>

RECURSIVE AllFrom_ChildrenLast(_, _, _, _)
\* AllFrom with a fault: the sub-tasks of a task come behind its siblings
AllFrom_ChildrenLast(t, subs, k, tabs) ==
  IF k > Len(subs) THEN << >>
  ELSE Repeat(<< " ", " ", " ", " " >>, tabs) \o to_string(t[subs[k]])
       \o AllFrom_ChildrenLast(t, subs, k + 1, tabs)
       \o AllFrom_ChildrenLast(t, t[subs[k]].sub_tasks, 1, tabs + 1)

RECURSIVE AllFrom(_, _, _, _)
\* the loop of all_to_string over sub_tasks[k..]
AllFrom(t, subs, k, tabs) ==
  IF k > Len(subs) THEN << >>
  ELSE Repeat(<< " ", " ", " ", " " >>, tabs) \o to_string(t[subs[k]])
       \o AllFrom(t, t[subs[k]].sub_tasks, 1, tabs + 1)
       \o AllFrom(t, subs, k + 1, tabs)

\* all_to_string with a fault: the node it is called on gets a line as well
all_to_string_WithRoot(t, id, tabs) ==
  to_string(t[id]) \o AllFrom(t, t[id].sub_tasks, 1, tabs + 1)

\* ToDo::all_to_string
all_to_string(t, id, tabs) == AllFrom(t, t[id].sub_tasks, 1, tabs)

MarkerLen == 8

\* ToDo::from_string panics when &text[8..] is out of range or splits a character
FromStringPanics(text) ==
  ByteLen(text) < MarkerLen \/ ~IsCharBoundary(text, MarkerLen)

\* from_string with a fault: the marker (C) is not recognised
from_string_NoLow(text, parent) ==
  LET complete == IF Len(text) >= 2 THEN text[2] = "X" ELSE FALSE
      priority == IF Len(text) >= 6
                  THEN CASE text[6] = "A" -> Some("High")
                         [] text[6] = "B" -> Some("Medium")
                         [] OTHER -> None
                  ELSE None
  IN  [ToDoNew(ByteSliceFrom(text, MarkerLen), parent)
         EXCEPT !.complete = complete, !.priority = priority]

\* ToDo::from_string
from_string(text, parent) ==
  LET complete == IF Len(text) >= 2 THEN text[2] = "X" ELSE FALSE
      priority == IF Len(text) >= 6
                  THEN CASE text[6] = "A" -> Some("High")
                         [] text[6] = "B" -> Some("Medium")
                         [] text[6] = "C" -> Some("Low")
                         [] OTHER -> None
                  ELSE None
  IN  [ToDoNew(ByteSliceFrom(text, MarkerLen), parent)
         EXCEPT !.complete = complete, !.priority = priority]

RECURSIVE SortedInsert_Unstable(_, _, _)
\* SortedInsert with a fault: x also passes the elements that compare equal
SortedInsert_Unstable(t, s, x) ==
  IF s = << >> THEN << x >>
  ELSE IF PriorityRank(t[x].priority) >= PriorityRank(t[s[Len(s)]].priority)
       THEN SortedInsert_Unstable(t, SubSeq(s, 1, Len(s) - 1), x)
            \o << s[Len(s)] >>
       ELSE s \o << x >>

RECURSIVE SortedInsert(_, _, _)
\* place id x behind every element of the sorted run s that does not compare
\* greater than it under the comparator of sort_by_priority
SortedInsert(t, s, x) ==
  IF s = << >> THEN << x >>
  ELSE IF PriorityRank(t[x].priority) > PriorityRank(t[s[Len(s)]].priority)
       THEN SortedInsert(t, SubSeq(s, 1, Len(s) - 1), x) \o << s[Len(s)] >>
       ELSE s \o << x >>

RECURSIVE SortFrom(_, _, _, _)
SortFrom(t, subs, k, acc) ==
  IF k > Len(subs) THEN acc
  ELSE SortFrom(t, subs, k + 1, SortedInsert(t, acc, subs[k]))

\* ToDo::sort_by_priority: slice::sort_by, a stable sort, under the reversed
\* comparison b.priority.cmp(a.priority)
sort_by_priority(t, id) ==
  [t EXCEPT ![id].sub_tasks = SortFrom(t, t[id].sub_tasks, 1, << >>)]

(***************************************************************************)
(* The state of the program                                                 *)
(***************************************************************************)
VARIABLES
  pc,            \* where the program is: "main", "render" (before
                 \* list_tasks), "getch" (run waits for a key), "dialogue",
                 \* "popup", "return" (run has left its loop), "done" (main
                 \* returned), "panic"
  args,          \* the command line argument: None or Some(path)
  config,        \* window.config: the characters bound to the commands
  home,          \* whether home_dir() resolves
  todo_dir,      \* whether $HOME/.todo exists
  eof,           \* whether stdin is at its end: getch returns None from now on
  fs,            \* the files: path -> None (absent) or Some(contents)
  todo,          \* the live ToDo nodes: id -> fields
  current_task,  \* View::current_task
  selection,     \* View::selection
  root,          \* View::root
  quit,          \* View::quit
  save_file,     \* View::save_file
  stack,         \* the suspended new_focus calls, innermost last
  dlg,           \* the caller of the open dialogue: "add", "edit" or "none"
  entry,         \* dialogue: the text
  index,         \* dialogue: the cursor as a byte offset
  chars,         \* dialogue: the cursor as a display column
  nchars         \* dialogue: the displayed width of the text

vars == << pc, args, config, home, todo_dir, eof, fs, todo, current_task, selection, root,
           quit, save_file, stack, dlg, entry, index, chars, nchars >>

envVars == << args, config, home, todo_dir, eof >>

dlgVars == << dlg, entry, index, chars, nchars >>

Paths == {"arg", "default"}

\* Config::default: the keys the popup has a part in
ConfigDefault == [quit |-> "q", back |-> "b"]

\* the children of node id
SubTasks(id) == todo[id].sub_tasks

\* the least id not in use
NewId(t) == CHOOSE i \in 0..Cardinality(DOMAIN t) :
              i \notin DOMAIN t /\ \A j \in 0..(i - 1) : j \in DOMAIN t

\* RootOf with a fault: save starts at the node it is called on
RootOf_Current(t, id) == id

RECURSIVE RootOf(_, _)
\* the node ToDo::save reaches by following parent
RootOf(t, id) ==
  IF IsSome(Upgrade(t, t[id].parent)) THEN RootOf(t, Unwrap(t[id].parent)) ELSE id

\* Subtree with a fault: a node owns nothing but itself
Subtree_NodeOnly(t, id) == {id}

RECURSIVE Subtree(_, _)
\* a node and everything its sub_tasks own
Subtree(t, id) ==
  {id} \cup UNION {Subtree(t, t[id].sub_tasks[k]) : k \in 1..Len(t[id].sub_tasks)}

Panic == pc' = "panic"

(***************************************************************************)
(* Start-up: main, look_for_save, View::new, View::new_from_save           *)
(***************************************************************************)
\* look_for_save: Ok(path) as Some(path), Err(()) as None
look_for_save ==
  IF IsSome(args)
  THEN IF IsSome(fs[Unwrap(args)]) THEN args ELSE None
  ELSE IF home /\ todo_dir /\ IsSome(fs["default"]) THEN Some("default") ELSE None

\* View::new; look_for_save has tried to create $HOME/.todo when it was missing
ViewNew ==
  /\ pc = "main"
  /\ look_for_save = None
  /\ \E created \in BOOLEAN :
       todo_dir' = IF args = None /\ home /\ ~todo_dir THEN created ELSE todo_dir
  /\ todo' = (0 :> ToDoNew(<< >>, None))
  /\ current_task' = 0
  /\ selection' = None
  /\ root' = TRUE
  /\ quit' = FALSE
  /\ save_file' = None
  /\ pc' = "render"
  /\ UNCHANGED << args, config, home, eof, fs, stack, dlgVars >>

\* ancestor with a fault: one parent up, whatever the level
ancestor_OneUp(t, id, level) ==
  IF level > 0 /\ IsSome(Upgrade(t, t[id].parent))
  THEN Unwrap(t[id].parent)
  ELSE id

RECURSIVE ancestor(_, _, _)
\* View::ancestor: the node level parents up, as far as parents exist
ancestor(t, id, level) ==
  IF level > 0 /\ IsSome(Upgrade(t, t[id].parent))
  THEN ancestor(t, Unwrap(t[id].parent), level - 1)
  ELSE id

RECURSIVE task_path(_, _, _)
\* ToDo::task_path: "<parent's text>: " goes in front of path for every
\* parent up to the node that has none
task_path(t, id, path) ==
  IF IsSome(Upgrade(t, t[id].parent))
  THEN LET parent_todo == Unwrap(t[id].parent)
       IN  task_path(t, parent_todo, t[parent_todo].task \o << ":", " " >> \o path)
  ELSE path

\* the line list_tasks prints at the top: the text of current_task behind
\* its task_path
Header == task_path(todo, current_task, todo[current_task].task)

\* add_task_from_string on the fields v of a View (todo, current_task,
\* selection)
add_task_from_string(v, input) ==
  LET id == NewId(v.todo)
      cur == v.current_task
  IN  [v EXCEPT
         !.todo = (id :> from_string(input, Some(cur))) @@
                  [v.todo EXCEPT ![cur].sub_tasks = Append(@, id)],
         !.selection = Some(Len(v.todo[cur].sub_tasks))]

RECURSIVE fill_children(_, _, _)
\* fill_children: res is "Ok", "Err" (the Err(&str) returns) or "Panic" (the
\* slice in from_string), view the fields of the View at that point
fill_children(v, buf, tabs) ==
  IF buf = << >> THEN [res |-> "Ok", view |-> v]
  ELSE LET line == Head(buf)
           num_tabs == tab_num(line)
           n == Len(v.todo[v.current_task].sub_tasks)
       IN  IF num_tabs = tabs + 1 /\ n = 0 THEN [res |-> "Err", view |-> v]
           ELSE IF num_tabs > tabs + 1 THEN [res |-> "Err", view |-> v]
           ELSE LET cur == IF num_tabs = tabs + 1
                           THEN v.todo[v.current_task].sub_tasks[n]
                           ELSE IF num_tabs < tabs
                                THEN ancestor(v.todo, v.current_task,
                                              tabs - num_tabs)
                                ELSE v.current_task
                    moved == [v EXCEPT !.current_task = cur]
                IN  IF FromStringPanics(TrimStart(line))
                    THEN [res |-> "Panic", view |-> moved]
                    ELSE fill_children(
                           add_task_from_string(moved, TrimStart(line)),
                           Tail(buf), num_tabs)

\* what new_from_save makes of the contents of the save file: the outcome of
\* fill_children and the fields of the View it returns
new_from_save(contents) ==
  LET proot == 0
      view == [todo |-> (proot :> ToDoNew(<< >>, None)),
               current_task |-> proot, selection |-> None]
      r == fill_children(view, Lines(contents), 0)
      new_root == NewId(r.view.todo)
  IN  CASE r.res = "Ok" -> [r EXCEPT !.view.current_task = proot]
        [] r.res = "Err" ->
             [r EXCEPT !.view.todo = (new_root :> ToDoNew(<< >>, None)),
                       !.view.current_task = new_root]
        [] OTHER -> r

\* ViewNewFromSave with a fault: a load that fails forgets the path
ViewNewFromSave_ForgetsPath ==
  /\ pc = "main"
  /\ IsSome(look_for_save)
  /\ root' = TRUE
  /\ quit' = FALSE
  /\ \E readable \in BOOLEAN :
       IF readable
       THEN LET r == new_from_save(Unwrap(fs[Unwrap(look_for_save)]))
            IN  /\ todo' = r.view.todo
                /\ current_task' = r.view.current_task
                /\ selection' = r.view.selection
                /\ save_file' = IF r.res = "Err" THEN None ELSE look_for_save
                /\ pc' = IF r.res = "Panic" THEN "panic" ELSE "render"
       ELSE /\ todo' = (0 :> ToDoNew(<< >>, None))
            /\ current_task' = 0
            /\ selection' = None
            /\ save_file' = None
            /\ pc' = "render"
  /\ UNCHANGED << envVars, fs, stack, dlgVars >>

\* View::new_from_save; View::load may fail, and the root stays empty
ViewNewFromSave ==
  /\ pc = "main"
  /\ IsSome(look_for_save)
  /\ root' = TRUE
  /\ quit' = FALSE
  /\ save_file' = look_for_save
  /\ \E readable \in BOOLEAN :
       IF readable
       THEN LET r == new_from_save(Unwrap(fs[Unwrap(look_for_save)]))
            IN  /\ todo' = r.view.todo
                /\ current_task' = r.view.current_task
                /\ selection' = r.view.selection
                /\ pc' = IF r.res = "Panic" THEN "panic" ELSE "render"
       ELSE /\ todo' = (0 :> ToDoNew(<< >>, None))
            /\ current_task' = 0
            /\ selection' = None
            /\ pc' = "render"
  /\ UNCHANGED << envVars, fs, stack, dlgVars >>

(***************************************************************************)
(* list_tasks, at the head of every turn of the loop of run                *)
(***************************************************************************)
\* ListTasks with a fault: a selection behind the last sub-task is kept
ListTasks_NoReset ==
  /\ pc = "render"
  /\ IF IsSome(selection) /\ Len(SubTasks(current_task)) = 0
     THEN Panic
     ELSE pc' = "getch"
  /\ UNCHANGED << envVars, fs, todo, current_task, selection, root, quit,
                  save_file, stack, dlgVars >>

\* list_tasks: `index > sub_tasks.len() - 1` is computed in usize.  With no
\* sub-task the subtraction overflows: a build with overflow checks panics
\* there; a build without them gets usize::MAX, the test is false, and
\* sub_tasks[index] is out of range.  Either build panics.
ListTasks ==
  /\ pc = "render"
  /\ LET n == Len(SubTasks(current_task))
     IN  IF IsSome(selection) /\ n = 0
         THEN Panic /\ UNCHANGED selection
         ELSE IF IsSome(selection) /\ Unwrap(selection) > n - 1
              THEN selection' = None /\ pc' = "getch"
              ELSE UNCHANGED selection /\ pc' = "getch"
  /\ UNCHANGED << envVars, fs, todo, current_task, root, quit, save_file,
                  stack, dlgVars >>

(***************************************************************************)
(* run: one key of the command loop.  Every command but quit and back      *)
(* comes back to the head of the loop, which renders.                      *)
(***************************************************************************)
\* what no command touches
frame == envVars

\* the selected index is a valid index of current_task.sub_tasks
InRange == Unwrap(selection) < Len(SubTasks(current_task))

\* the selected sub-task
Selected == SubTasks(current_task)[Unwrap(selection) + 1]

\* config.quit: set the flag; the test behind the match leaves the loop
QuitKey ==
  /\ pc = "getch"
  /\ quit' = TRUE
  /\ pc' = "return"
  /\ UNCHANGED << frame, fs, todo, current_task, selection, root, save_file,
                  stack, dlgVars >>

\* BackKey with a fault: the root view breaks as well
BackKey_AlwaysBreaks ==
  /\ pc = "getch"
  /\ pc' = "return"
  /\ UNCHANGED << frame, fs, todo, current_task, selection, root, quit,
                  save_file, stack, dlgVars >>

\* config.back: nothing in the root view, break elsewhere
BackKey ==
  /\ pc = "getch"
  /\ pc' = IF root THEN "render" ELSE "return"
  /\ UNCHANGED << frame, fs, todo, current_task, selection, root, quit,
                  save_file, stack, dlgVars >>

\* View::save, ToDo::save and ToDo::save_current.  File::create and write_all
\* may fail; a failed write leaves a part of the buffer in the file.
SaveKey(outcome) ==
  /\ pc = "getch"
  /\ LET filename == IF IsSome(save_file) THEN save_file
                     ELSE IF home THEN Some("default") ELSE None
         buffer == all_to_string(todo, RootOf(todo, current_task), 0)
     IN  IF filename = None
         THEN outcome = "no_home" /\ UNCHANGED fs
         ELSE IF save_file = None /\ ~todo_dir
              THEN outcome = "create_err" /\ UNCHANGED fs
              ELSE \/ outcome = "create_err" /\ UNCHANGED fs
                   \/ outcome = "ok" /\
                        fs' = [fs EXCEPT ![Unwrap(filename)] = Some(buffer)]
                   \/ outcome = "write_err" /\
                        \E k \in 0..(Len(buffer) - 1) :
                          fs' = [fs EXCEPT ![Unwrap(filename)] =
                                   Some(SubSeq(buffer, 1, k))]
  /\ pc' = "render"
  /\ UNCHANGED << frame, todo, current_task, selection, root, quit, save_file,
                  stack, dlgVars >>

\* add_task_from_input opens input_dialogue
AddKey ==
  /\ pc = "getch"
  /\ dlg' = "add"
  /\ entry' = << >>
  /\ index' = 0
  /\ nchars' = 0
  /\ chars' = 0
  /\ pc' = "dialogue"
  /\ UNCHANGED << frame, fs, todo, current_task, selection, root, quit,
                  save_file, stack >>

\* EditKey with a fault: the dialogue opens with the cursor at the start
EditKey_CursorAtStart ==
  /\ pc = "getch"
  /\ IF selection = None
     THEN pc' = "render" /\ UNCHANGED dlgVars
     ELSE IF ~InRange
          THEN Panic /\ UNCHANGED dlgVars
          ELSE /\ dlg' = "edit"
               /\ entry' = todo[Selected].task
               /\ index' = 0
               /\ nchars' = StrWidth(todo[Selected].task)
               /\ chars' = 0
               /\ pc' = "dialogue"
  /\ UNCHANGED << frame, fs, todo, current_task, selection, root, quit,
                  save_file, stack >>

\* edit_task opens edit_dialogue on the selected text
EditKey ==
  /\ pc = "getch"
  /\ IF selection = None
     THEN pc' = "render" /\ UNCHANGED dlgVars
     ELSE IF ~InRange
          THEN Panic /\ UNCHANGED dlgVars
          ELSE /\ dlg' = "edit"
               /\ entry' = todo[Selected].task
               /\ index' = ByteLen(todo[Selected].task)
               /\ nchars' = StrWidth(todo[Selected].task)
               /\ chars' = StrWidth(todo[Selected].task)
               /\ pc' = "dialogue"
  /\ UNCHANGED << frame, fs, todo, current_task, selection, root, quit,
                  save_file, stack >>

\* DeleteKey with a fault: the popup opens whether a task is selected or not
DeleteKey_AlwaysAsks ==
  /\ pc = "getch"
  /\ pc' = "popup"
  /\ UNCHANGED << frame, fs, todo, current_task, selection, root, quit,
                  save_file, stack, dlgVars >>

\* remove_task opens the popup when a task is selected
DeleteKey ==
  /\ pc = "getch"
  /\ pc' = IF selection = None THEN "render" ELSE "popup"
  /\ UNCHANGED << frame, fs, todo, current_task, selection, root, quit,
                  save_file, stack, dlgVars >>

\* Swap with a fault: the entry at i is overwritten, that at j is kept
Swap_Overwrite(s, i, j) == [s EXCEPT ![i + 1] = s[j + 1]]

\* Vec::swap of the entries at 0-based i and j
Swap(s, i, j) == [s EXCEPT ![i + 1] = s[j + 1], ![j + 1] = s[i + 1]]

\* move_task with a fault: the selection stays where it was
move_task_KeepsSelection(up) ==
  /\ pc = "getch"
  /\ IF selection = None
     THEN pc' = "render" /\ UNCHANGED todo
     ELSE LET i == Unwrap(selection)
              n == Len(SubTasks(current_task))
              new_index == IF up THEN (IF i = 0 THEN n - 1 ELSE i - 1)
                           ELSE (IF i = n - 1 THEN 0 ELSE i + 1)
          IN  /\ todo' = [todo EXCEPT ![current_task].sub_tasks =
                            Swap(@, new_index, i)]
              /\ pc' = "render"
  /\ UNCHANGED << frame, fs, current_task, selection, root, quit, save_file,
                  stack, dlgVars >>

\* move_task
move_task(up) ==
  /\ pc = "getch"
  /\ IF selection = None
     THEN pc' = "render" /\ UNCHANGED << todo, selection >>
     ELSE LET i == Unwrap(selection)
              n == Len(SubTasks(current_task))
              new_index == IF up THEN (IF i = 0 THEN n - 1 ELSE i - 1)
                           ELSE (IF i = n - 1 THEN 0 ELSE i + 1)
          IN  IF n = 0 \/ i >= n \/ new_index >= n
              THEN Panic /\ UNCHANGED << todo, selection >>
              ELSE /\ todo' = [todo EXCEPT ![current_task].sub_tasks =
                                 Swap(@, new_index, i)]
                   /\ selection' = Some(new_index)
                   /\ pc' = "render"
  /\ UNCHANGED << frame, fs, current_task, root, quit, save_file, stack,
                  dlgVars >>

TaskUpKey == move_task(TRUE)

TaskDownKey == move_task(FALSE)

\* FocusKey with a fault: the focused view keeps the root flag of its parent
FocusKey_KeepsRoot ==
  /\ pc = "getch"
  /\ IF selection = None
     THEN pc' = "render" /\ UNCHANGED << current_task, selection, root, stack >>
     ELSE IF ~InRange
          THEN Panic /\ UNCHANGED << current_task, selection, root, stack >>
          ELSE /\ stack' = Append(stack, [previous_root |-> root,
                                          previous_selection |-> selection,
                                          psub_tasks |-> current_task,
                                          sub_task |-> Selected])
               /\ current_task' = Selected
               /\ root' = root
               /\ selection' = IF SubTasks(Selected) # << >> THEN Some(0)
                               ELSE None
               /\ pc' = "render"
  /\ UNCHANGED << frame, fs, todo, quit, save_file, dlgVars >>

\* new_focus up to its call of run
FocusKey ==
  /\ pc = "getch"
  /\ IF selection = None
     THEN pc' = "render" /\ UNCHANGED << current_task, selection, root, stack >>
     ELSE IF ~InRange
          THEN Panic /\ UNCHANGED << current_task, selection, root, stack >>
          ELSE /\ stack' = Append(stack, [previous_root |-> root,
                                          previous_selection |-> selection,
                                          psub_tasks |-> current_task,
                                          sub_task |-> Selected])
               /\ current_task' = Selected
               /\ root' = FALSE
               /\ selection' = IF SubTasks(Selected) # << >> THEN Some(0)
                               ELSE None
               /\ pc' = "render"
  /\ UNCHANGED << frame, fs, todo, quit, save_file, dlgVars >>

\* FocusReturn with a fault: the outer run does not test quit
FocusReturn_NoQuitTest ==
  /\ pc = "return"
  /\ stack # << >>
  /\ LET f == stack[Len(stack)]
     IN  /\ current_task' = Unwrap(todo[f.sub_task].parent)
         /\ root' = f.previous_root
         /\ selection' = f.previous_selection
         /\ stack' = SubSeq(stack, 1, Len(stack) - 1)
         /\ pc' = "render"
  /\ UNCHANGED << frame, fs, todo, quit, save_file, dlgVars >>

\* FocusReturn with a fault: the selection of the focused view is kept
FocusReturn_KeepsSelection ==
  /\ pc = "return"
  /\ stack # << >>
  /\ LET f == stack[Len(stack)]
     IN  /\ current_task' = Unwrap(todo[f.sub_task].parent)
         /\ root' = f.previous_root
         /\ stack' = SubSeq(stack, 1, Len(stack) - 1)
         /\ pc' = IF quit THEN "return" ELSE "render"
  /\ UNCHANGED << frame, fs, todo, selection, quit, save_file, dlgVars >>

\* new_focus after run has returned, then the test of quit in the outer run
FocusReturn ==
  /\ pc = "return"
  /\ stack # << >>
  /\ LET f == stack[Len(stack)]
         parent == Upgrade(todo, todo[f.sub_task].parent)
     IN  IF parent = None
         THEN Panic /\ UNCHANGED << current_task, root, selection, stack >>
         ELSE /\ current_task' = Unwrap(parent)
              /\ root' = f.previous_root
              /\ selection' = f.previous_selection
              /\ stack' = SubSeq(stack, 1, Len(stack) - 1)
              /\ pc' = IF quit THEN "return" ELSE "render"
  /\ UNCHANGED << frame, fs, todo, quit, save_file, dlgVars >>

\* the outermost run returns to main
Exit ==
  /\ pc = "return"
  /\ stack = << >>
  /\ pc' = "done"
  /\ UNCHANGED << frame, fs, todo, current_task, selection, root, quit,
                  save_file, stack, dlgVars >>

\* complete_task
CompleteKey ==
  /\ pc = "getch"
  /\ IF selection = None
     THEN pc' = "render" /\ UNCHANGED todo
     ELSE IF ~InRange
          THEN Panic /\ UNCHANGED todo
          ELSE /\ todo' = [todo EXCEPT ![Selected].complete = ~@]
               /\ pc' = "render"
  /\ UNCHANGED << frame, fs, current_task, selection, root, quit, save_file,
                  stack, dlgVars >>

\* up with a fault: the first index does not wrap to the last
up_NoWrap(i) == IF i - 1 < 0 THEN Some(0) ELSE Some(i - 1)

\* View::up
up(i) == LET ntasks == Len(SubTasks(current_task))
         IN  IF i - 1 < 0 THEN Some(i + ntasks - 1) ELSE Some(i - 1)

\* View::down
down(i) == LET ntasks == Len(SubTasks(current_task))
           IN  IF i + 1 >= ntasks THEN Some(i + 1 - ntasks) ELSE Some(i + 1)

\* move_selection
move_selection(ifup) ==
  /\ pc = "getch"
  /\ IF IsSome(selection)
     THEN IF ifup /\ Unwrap(selection) = 0 /\ Len(SubTasks(current_task)) = 0
          THEN Panic /\ UNCHANGED selection  \* index + ntasks - 1 overflows
          ELSE /\ selection' = IF ifup THEN up(Unwrap(selection))
                               ELSE down(Unwrap(selection))
               /\ pc' = "render"
     ELSE /\ selection' = IF Len(SubTasks(current_task)) = 0 THEN None
                          ELSE Some(0)
          /\ pc' = "render"
  /\ UNCHANGED << frame, fs, todo, current_task, root, quit, save_file, stack,
                  dlgVars >>

UpKey == move_selection(TRUE)

DownKey == move_selection(FALSE)

\* Increased with a fault: High wraps around to None
Increased_Wraps(p) ==
  CASE p = None -> Some("Low")
    [] p = Some("Low") -> Some("Medium")
    [] p = Some("Medium") -> Some("High")
    [] p = Some("High") -> None

\* the ladder of increase_priority
Increased(p) ==
  CASE p = None -> Some("Low")
    [] p = Some("Low") -> Some("Medium")
    [] p = Some("Medium") -> Some("High")
    [] p = Some("High") -> Some("High")

\* the ladder of decrease_priority
Decreased(p) ==
  CASE p = None -> None
    [] p = Some("Low") -> None
    [] p = Some("Medium") -> Some("Low")
    [] p = Some("High") -> Some("Medium")

\* increase_priority / decrease_priority
change_priority(increase) ==
  /\ pc = "getch"
  /\ IF selection = None
     THEN pc' = "render" /\ UNCHANGED todo
     ELSE IF ~InRange
          THEN Panic /\ UNCHANGED todo
          ELSE /\ todo' = [todo EXCEPT ![Selected].priority =
                             IF increase THEN Increased(@) ELSE Decreased(@)]
               /\ pc' = "render"
  /\ UNCHANGED << frame, fs, current_task, selection, root, quit, save_file,
                  stack, dlgVars >>

IncreaseKey == change_priority(TRUE)

DecreaseKey == change_priority(FALSE)

\* SortKey with a fault: the selection follows the task it was on
SortKey_SelectionFollows ==
  /\ pc = "getch"
  /\ todo' = sort_by_priority(todo, current_task)
  /\ selection' = IF IsSome(selection) /\ InRange
                  THEN Some((CHOOSE i \in 1..Len(SubTasks(current_task)) :
                               todo'[current_task].sub_tasks[i] = Selected) - 1)
                  ELSE selection
  /\ pc' = "render"
  /\ UNCHANGED << frame, fs, current_task, root, quit, save_file,
                  stack, dlgVars >>

\* View::sort_by_priority
SortKey ==
  /\ pc = "getch"
  /\ todo' = sort_by_priority(todo, current_task)
  /\ pc' = "render"
  /\ UNCHANGED << frame, fs, current_task, selection, root, quit, save_file,
                  stack, dlgVars >>

\* what getch returns at the end of stdin
NoKey == "None"

\* stdin comes to its end while a loop waits for a key
EndOfStream ==
  /\ pc \in {"getch", "dialogue", "popup"}
  /\ ~eof
  /\ eof' = TRUE
  /\ UNCHANGED << pc, args, config, home, todo_dir, fs, todo, current_task,
                  selection, root, quit, save_file, stack, dlgVars >>

\* OtherKey with a fault: run leaves its loop when there is no key
OtherKey_Breaks ==
  /\ pc = "getch"
  /\ pc' = "return"
  /\ UNCHANGED << frame, fs, todo, current_task, selection, root, quit,
                  save_file, stack, dlgVars >>

\* any other key, or no key at all: Some(_) => (), None => ()
OtherKey ==
  /\ pc = "getch"
  /\ pc' = "render"
  /\ UNCHANGED << frame, fs, todo, current_task, selection, root, quit,
                  save_file, stack, dlgVars >>

(***************************************************************************)
(* dialogue: the line editor, one key at a time                             *)
(***************************************************************************)
RECURSIVE BackTo(_, _)
\* while index > 0 { index -= 1; if entry.is_char_boundary(index) { break } }
BackTo(s, i) ==
  IF i > 0
  THEN IF IsCharBoundary(s, i - 1) THEN i - 1 ELSE BackTo(s, i - 1)
  ELSE i

RECURSIVE ForwardTo(_, _)
\* while end < entry.len() { end += 1; if entry.is_char_boundary(end) { break } }
ForwardTo(s, i) ==
  IF i < ByteLen(s)
  THEN IF IsCharBoundary(s, i + 1) THEN i + 1 ELSE ForwardTo(s, i + 1)
  ELSE i

\* String::insert at byte offset i (a boundary)
InsertAt(s, i, ch) ==
  SubSeq(s, 1, CharsBefore(s, i)) \o << ch >>
  \o SubSeq(s, CharsBefore(s, i) + 1, Len(s))

\* String::remove: the character that starts at byte offset i is taken out
RemoveAt(s, i) ==
  SubSeq(s, 1, CharsBefore(s, i)) \o SubSeq(s, CharsBefore(s, i) + 2, Len(s))

\* String::remove panics at the end of the string and inside a character
RemovePanics(s, i) == i >= ByteLen(s) \/ ~IsCharBoundary(s, i)

\* what a key of the dialogue leaves alone
dlgFrame == << frame, fs, todo, current_task, selection, root, quit,
               save_file, stack, dlg >>

\* the locals of dialogue; panic is set by a step that panics
Locals == [entry |-> entry, index |-> index, chars |-> chars,
           nchars |-> nchars, panic |-> FALSE]

Panicked(d) == [d EXCEPT !.panic = TRUE]

\* Key::Char(ch): String::insert panics inside a character, and unwrap panics
\* on the width of a control character
OnChar(d, ch) ==
  IF (d.index < ByteLen(d.entry) /\ ~IsCharBoundary(d.entry, d.index))
     \/ CharWidth(ch) = None
  THEN Panicked(d)
  ELSE [d EXCEPT
          !.entry = IF d.index >= ByteLen(d.entry) THEN Append(d.entry, ch)
                    ELSE InsertAt(d.entry, d.index, ch),
          !.index = d.index + Utf8Len(ch),
          !.chars = d.chars + Unwrap(CharWidth(ch)),
          !.nchars = d.nchars + Unwrap(CharWidth(ch))]

\* OnBackspace with a fault: the column goes back by one whatever the width
OnBackspace_OneColumn(d) ==
  IF d.entry = << >> THEN d
  ELSE LET start == BackTo(d.entry, d.index)
       IN  IF d.chars = 0 \/ d.nchars = 0 \/ RemovePanics(d.entry, start)
           THEN Panicked(d)
           ELSE [d EXCEPT !.index = start,
                          !.chars = d.chars - 1,
                          !.nchars = d.nchars - 1,
                          !.entry = RemoveAt(d.entry, start)]

\* Key::Backspace; the counters are usize and are counted down one by one
OnBackspace(d) ==
  IF d.entry = << >> THEN d
  ELSE LET end == d.index
           start == BackTo(d.entry, d.index)
       IN  IF ~IsCharBoundary(d.entry, end) \/ RemovePanics(d.entry, start)
           THEN Panicked(d)
           ELSE LET chwidth == StrWidth(ByteSlice(d.entry, start, end))
                IN  IF chwidth > d.chars \/ chwidth > d.nchars
                    THEN Panicked(d)
                    ELSE [d EXCEPT !.index = start,
                                   !.chars = d.chars - chwidth,
                                   !.nchars = d.nchars - chwidth,
                                   !.entry = RemoveAt(d.entry, start)]

\* OnDelete with a fault: the width counter is left alone
OnDelete_KeepsWidth(d) ==
  IF d.entry # << >> /\ d.index < ByteLen(d.entry)
  THEN [d EXCEPT !.entry = RemoveAt(d.entry, d.index)]
  ELSE d

\* Key::Delete
OnDelete(d) ==
  IF d.entry # << >> /\ d.index < ByteLen(d.entry)
  THEN LET end == ForwardTo(d.entry, d.index)
       IN  IF RemovePanics(d.entry, d.index) THEN Panicked(d)
           ELSE LET chwidth == StrWidth(ByteSlice(d.entry, d.index, end))
                IN  IF chwidth > d.nchars THEN Panicked(d)
                    ELSE [d EXCEPT !.nchars = d.nchars - chwidth,
                                   !.entry = RemoveAt(d.entry, d.index)]
  ELSE d

\* OnLeft with a fault: one byte back, whatever the character
OnLeft_OneByte(d) ==
  IF d.index > 0
  THEN [d EXCEPT !.index = d.index - 1,
                 !.chars = IF d.chars > 0 THEN d.chars - 1 ELSE 0]
  ELSE d

\* Key::Left
OnLeft(d) ==
  IF d.index > 0
  THEN LET start == BackTo(d.entry, d.index)
       IN  IF ~IsCharBoundary(d.entry, d.index) THEN Panicked(d)
           ELSE LET chwidth == StrWidth(ByteSlice(d.entry, start, d.index))
                IN  IF chwidth > d.chars THEN Panicked(d)
                    ELSE [d EXCEPT !.index = start,
                                   !.chars = d.chars - chwidth]
  ELSE d

\* OnRight with a fault: the column goes on by one whatever the width
OnRight_OneColumn(d) ==
  IF d.index < ByteLen(d.entry)
  THEN [d EXCEPT !.index = ForwardTo(d.entry, d.index),
                 !.chars = d.chars + 1]
  ELSE d

\* Key::Right
OnRight(d) ==
  IF d.index < ByteLen(d.entry)
  THEN LET end == ForwardTo(d.entry, d.index)
       IN  IF ~IsCharBoundary(d.entry, d.index) THEN Panicked(d)
           ELSE [d EXCEPT !.index = end,
                          !.chars = d.chars
                                    + StrWidth(ByteSlice(d.entry, d.index, end))]
  ELSE d

\* the dialogue goes on with locals d, or the program has panicked
Continue(d) ==
  /\ pc' = IF d.panic THEN "panic" ELSE "dialogue"
  /\ entry' = d.entry
  /\ index' = d.index
  /\ chars' = d.chars
  /\ nchars' = d.nchars
  /\ UNCHANGED dlgFrame

DlgChar(ch) == pc = "dialogue" /\ ch # "\n" /\ Continue(OnChar(Locals, ch))

DlgBackspace == pc = "dialogue" /\ Continue(OnBackspace(Locals))

DlgDelete == pc = "dialogue" /\ Continue(OnDelete(Locals))

DlgLeft == pc = "dialogue" /\ Continue(OnLeft(Locals))

DlgRight == pc = "dialogue" /\ Continue(OnRight(Locals))

\* any other key, or no key: _ => ()
DlgOther ==
  /\ pc = "dialogue"
  /\ UNCHANGED vars

\* Key::Char('\n') ends the dialogue; add_task_from_input or edit_task goes on
\* with the text
DlgEnter ==
  /\ pc = "dialogue"
  /\ IF dlg = "add"
     THEN LET id == NewId(todo)
          IN  /\ todo' = (id :> ToDoNew(entry, Some(current_task))) @@
                         [todo EXCEPT ![current_task].sub_tasks = Append(@, id)]
              /\ selection' = Some(Len(SubTasks(current_task)))
              /\ pc' = "render"
     ELSE IF ~InRange
          THEN Panic /\ UNCHANGED << todo, selection >>
          ELSE /\ todo' = [todo EXCEPT ![Selected].task = entry]
               /\ pc' = "render"
               /\ UNCHANGED selection
  /\ dlg' = "none"
  /\ entry' = << >>
  /\ index' = 0
  /\ chars' = 0
  /\ nchars' = 0
  /\ UNCHANGED << frame, fs, current_task, root, quit, save_file, stack >>

(***************************************************************************)
(* popup and remove_task                                                    *)
(***************************************************************************)
\* the match of popup on the character of a key: the value popup returns, or
\* "loop" when it reads the next key
popup(key) ==
  CASE key = "y" -> "true"
    [] key = "n" -> "false"
    [] key = "q" -> "false"
    [] key = "b" -> "false"
    [] OTHER -> "loop"

\* Key::Char('y'): popup returns true and remove_task removes the sub-task;
\* the nodes it owned are dropped
PopupYes ==
  /\ pc = "popup"
  /\ popup("y") = "true"
  /\ IF ~InRange
     THEN Panic /\ UNCHANGED << todo, selection >>
     ELSE LET i == Unwrap(selection)
              subs == SubTasks(current_task)
              gone == Subtree(todo, Selected)
              kept == [todo EXCEPT ![current_task].sub_tasks =
                         SubSeq(subs, 1, i) \o SubSeq(subs, i + 2, Len(subs))]
          IN  /\ todo' = [id \in DOMAIN todo \ gone |-> kept[id]]
              /\ selection' = None
              /\ pc' = "render"
  /\ UNCHANGED << frame, fs, current_task, root, quit, save_file, stack,
                  dlgVars >>

\* Key::Char('n'), Key::Char('q'), Key::Char('b'): popup returns false
PopupNo(key) ==
  /\ pc = "popup"
  /\ popup(key) = "false"
  /\ pc' = "render"
  /\ UNCHANGED << frame, fs, todo, current_task, selection, root, quit,
                  save_file, stack, dlgVars >>

\* any other key, or no key: the popup keeps waiting
PopupOther(key) ==
  /\ pc = "popup"
  /\ popup(key) = "loop"
  /\ UNCHANGED vars

(***************************************************************************)
(* The program as a whole                                                   *)
(***************************************************************************)
SeqsUpTo(S, n) == UNION {[1..k -> S] : k \in 0..n}

RECURSIVE Join(_)
\* the lines ls as the contents of a file, each line ended by "\n"
Join(ls) == IF ls = << >> THEN << >> ELSE Head(ls) \o << "\n" >> \o Join(Tail(ls))

\* the state in which main starts, in environment e
InitIn(e) ==
  /\ pc = "main"
  /\ args = e.args
  /\ config = e.config
  /\ home = e.home
  /\ todo_dir = e.todo_dir
  /\ eof = FALSE
  /\ fs = e.fs
  /\ todo = (0 :> ToDoNew(<< >>, None))
  /\ current_task = 0
  /\ selection = None
  /\ root = TRUE
  /\ quit = FALSE
  /\ save_file = None
  /\ stack = << >>
  /\ dlg = "none"
  /\ entry = << >>
  /\ index = 0
  /\ chars = 0
  /\ nchars = 0

\* the save files main may find: none, an empty one, a list with a sub-task,
\* one whose second line is indented too far
SpecFiles ==
  { << >>,
    Join(<< << "[", " ", "]", " ", "(", " ", ")", " ", "a" >>,
            << " ", " ", " ", " ", "[", "X", "]", " ", "(", "A", ")", " " >> >>),
    Join(<< << "[", " ", "]", " ", "(", "B", ")", " ", "a" >>,
            Repeat(<< " " >>, 2 * TabWidth)
              \o << "[", " ", "]", " ", "(", " ", ")", " ", "a" >> >>) }

\* the environments of Spec: a path argument, whose file may be absent, and
\* a home directory in which no save file exists yet
SpecEnvs ==
  { [args |-> Some("arg"), config |-> ConfigDefault, home |-> TRUE,
     todo_dir |-> TRUE,
     fs |-> [p \in Paths |-> IF p = "arg" THEN f ELSE None]] :
      f \in {None} \cup {Some(c) : c \in SpecFiles} }

\* the characters typed into a dialogue
SpecChars == {"a"}

\* the characters typed into the popup
PopupKeys == {"y", "n", "q", "b", "h", "x"}

\* in Spec the save file cannot be created
SpecOutcomes == {"create_err", "no_home"}

\* the ToDo nodes below the root
NodeCount == Cardinality(DOMAIN todo) - 1

Init == \E e \in SpecEnvs : InitIn(e)

Next ==
  \/ ViewNew
  \/ ViewNewFromSave
  \/ ListTasks
  \/ QuitKey
  \/ BackKey
  \/ \E outcome \in SpecOutcomes : SaveKey(outcome)
  \/ NodeCount < MaxNodes /\ AddKey
  \/ EditKey
  \/ DeleteKey
  \/ TaskUpKey
  \/ TaskDownKey
  \/ FocusKey
  \/ FocusReturn
  \/ Exit
  \/ CompleteKey
  \/ UpKey
  \/ DownKey
  \/ IncreaseKey
  \/ DecreaseKey
  \/ SortKey
  \/ OtherKey
  \/ \E ch \in SpecChars : Len(entry) < MaxLen /\ nchars < MaxCols /\ DlgChar(ch)
  \/ DlgBackspace
  \/ DlgDelete
  \/ DlgLeft
  \/ DlgRight
  \/ DlgOther
  \/ DlgEnter
  \/ PopupYes
  \/ \E key \in PopupKeys : PopupNo(key)
  \/ \E key \in PopupKeys : PopupOther(key)

Spec == Init /\ [][Next]_vars

(***************************************************************************)
(* Parts of the program under wider inputs                                  *)
(***************************************************************************)
\* started on an existing, empty file named on the command line
ArgEnv == [args |-> Some("arg"), config |-> ConfigDefault, home |-> TRUE,
           todo_dir |-> TRUE,
           fs |-> [p \in Paths |-> IF p = "arg" THEN Some(<< >>) ELSE None]]

\* the head of the loop of run in the root view of tree t, selection sel,
\* with the keys of cfg
RunningWith(cfg, t, sel) ==
  /\ pc = "render"
  /\ args = ArgEnv.args
  /\ config = cfg
  /\ home = ArgEnv.home
  /\ todo_dir = ArgEnv.todo_dir
  /\ eof = FALSE
  /\ fs = ArgEnv.fs
  /\ todo = t
  /\ current_task = 0
  /\ selection = sel
  /\ root = TRUE
  /\ quit = FALSE
  /\ save_file = ArgEnv.args
  /\ stack = << >>
  /\ dlg = "none"
  /\ entry = << >>
  /\ index = 0
  /\ chars = 0
  /\ nchars = 0

\* the same with the default keys
RunningOn(t, sel) == RunningWith(ConfigDefault, t, sel)

RECURSIVE Ascending(_)
\* the members of a set of ids, least first
Ascending(S) ==
  IF S = {} THEN << >>
  ELSE LET m == CHOOSE x \in S : \A y \in S : x <= y
       IN  << m >> \o Ascending(S \ {m})

\* the tree of nodes 1..n below root 0, node i under par[i] with the fields
\* field[i], the sub-tasks of a node in the order of their ids
TreeOf(n, par, field) ==
  [id \in 0..n |->
     [task |-> IF id = 0 THEN << >> ELSE field[id].task,
      complete |-> IF id = 0 THEN FALSE ELSE field[id].complete,
      priority |-> IF id = 0 THEN None ELSE field[id].priority,
      parent |-> IF id = 0 THEN None ELSE Some(par[id]),
      sub_tasks |-> Ascending({k \in 1..n : par[k] = id})]]

\* ---- loading: every file of up to MaxLines lines ----
LoadIndents == {0, 2, 4, 8}

LoadBodies ==
  { << "[", " ", "]", " ", "(", " ", ")", " ", "a" >>,
    << "[", "X", "]", " ", "(", "A", ")", " " >>,
    << "[", "X", "]" >>,
    << >> }

LoadLines == {Repeat(<< " " >>, k) \o b : k \in LoadIndents, b \in LoadBodies}

InitLoad ==
  \E ls \in SeqsUpTo(LoadLines, MaxLines) :
    InitIn([ArgEnv EXCEPT !.fs["arg"] = Some(Join(ls))])

NextLoad ==
  \/ ViewNewFromSave
  \/ ListTasks

SpecLoad == InitLoad /\ [][NextLoad]_vars

\* ---- sorting: up to MaxSortChildren sub-tasks of every priority ----
MaxSortChildren == 5

Priorities == {None, Some("Low"), Some("Medium"), Some("High")}

InitSort ==
  \E n \in 0..MaxSortChildren :
    \E pr \in [1..n -> Priorities], under \in 0..(IF n = 0 THEN 0 ELSE 1) :
      \E sel \in {None} \cup {Some(i) : i \in {0, n - 1} \cap 0..(n - 1)} :
        RunningOn(
          TreeOf(n + under,
                 [i \in 1..(n + under) |-> IF i > n THEN 1 ELSE 0],
                 [i \in 1..(n + under) |->
                    [task |-> << "a" >>, complete |-> FALSE,
                     priority |-> IF i > n THEN Some("High") ELSE pr[i]]]),
          sel)

NextSort ==
  \/ ListTasks
  \/ SortKey

SpecSort == InitSort /\ [][NextSort]_vars

\* ---- the line editor: every seed text, characters of every width ----
MaxSeed == 2

EdMaxLen == 3

EdMaxCols == 5

SeedChars == {"a", "zh", "cm"}

EdChars == {"a", "zh", "cm", "tab"}

InitEditor ==
  \E seed \in SeqsUpTo(SeedChars, MaxSeed) :
    RunningOn(TreeOf(1, << 0 >>, << [task |-> seed, complete |-> FALSE,
                                     priority |-> None] >>),
              Some(0))

NextEditor ==
  \/ ListTasks
  \/ EditKey
  \/ \E ch \in EdChars :
       Len(entry) < EdMaxLen /\ nchars < EdMaxCols /\ DlgChar(ch)
  \/ DlgBackspace
  \/ DlgDelete
  \/ DlgLeft
  \/ DlgRight
  \/ DlgOther
  \/ DlgEnter

SpecEditor == InitEditor /\ [][NextEditor]_vars

\* ---- opening the dialogue: new entries and edits of texts of 1-, 2- and
\* 3-byte characters of width 0, 1 and 2 ----
MaxOpenNodes == 2

OpenMaxLen == 2

NextOpen ==
  \/ ListTasks
  \/ NodeCount < MaxOpenNodes /\ AddKey
  \/ EditKey
  \/ UpKey
  \/ \E ch \in SeedChars : Len(entry) < OpenMaxLen /\ DlgChar(ch)
  \/ DlgLeft
  \/ DlgRight
  \/ DlgOther
  \/ DlgEnter

SpecOpen == InitEditor /\ [][NextOpen]_vars

\* ---- the text format: every tree of up to MaxCodecNodes nodes ----
MaxCodecNodes == 4

\* the fields a node may have got from add, toggle_complete, change_priority
CodecFields ==
  { [task |-> << >>, complete |-> FALSE, priority |-> None],
    [task |-> << "a" >>, complete |-> TRUE, priority |-> Some("High")],
    [task |-> << " ", "X" >>, complete |-> FALSE, priority |-> Some("Low")],
    [task |-> << "zh", " " >>, complete |-> TRUE, priority |-> Some("Medium")] }

InitCodec ==
  \E n \in 0..MaxCodecNodes :
    \E par \in [1..n -> 0..n], field \in [1..n -> CodecFields] :
      /\ \A i \in 1..n : par[i] < i
      /\ RunningOn(TreeOf(n, par, field), None)

NextCodec ==
  \/ ListTasks
  \/ SaveKey("ok")
  \/ QuitKey
  \/ Exit

SpecCodec == InitCodec /\ [][NextCodec]_vars

\* ---- start-up and save: every environment of main ----
\* with a path argument the default file is absent or empty, without one the
\* argument's file does not matter
SaveEnvs ==
  { e \in [args : {None, Some("arg")}, config : {ConfigDefault},
           home : BOOLEAN, todo_dir : BOOLEAN,
           fs : [Paths -> {None} \cup {Some(f) : f \in SpecFiles}]] :
      /\ e.todo_dir => e.home
      /\ ~e.todo_dir => e.fs["default"] = None
      /\ e.args = None => e.fs["arg"] = None
      /\ e.args # None => e.fs["default"] \in {None, Some(<< >>)} }

\* most ToDo nodes below the root in SpecSave
MaxSaveNodes == 2

SaveOutcomes == {"ok", "create_err", "write_err", "no_home"}

InitSave == \E e \in SaveEnvs : InitIn(e)

NextSave ==
  \/ ViewNew
  \/ ViewNewFromSave
  \/ ListTasks
  \/ \E outcome \in SaveOutcomes : SaveKey(outcome)
  \/ NodeCount < MaxSaveNodes /\ AddKey
  \/ \E ch \in SpecChars : Len(entry) < MaxLen /\ nchars < MaxCols /\ DlgChar(ch)
  \/ DlgEnter
  \/ FocusKey
  \/ BackKey
  \/ FocusReturn
  \/ QuitKey
  \/ Exit

SpecSave == InitSave /\ [][NextSave]_vars

\* ---- navigation: every tree of up to MaxNavNodes nodes ----
MaxNavNodes == 4

InitNav ==
  \E n \in 0..MaxNavNodes :
    \E par \in [1..n -> 0..n] :
      /\ \A i \in 1..n : par[i] < i
      /\ RunningOn(TreeOf(n, par, [i \in 1..n |->
                                     [task |-> << "a" >>, complete |-> FALSE,
                                      priority |-> None]]),
                   None)

NextNav ==
  \/ ListTasks
  \/ UpKey
  \/ DownKey
  \/ FocusKey
  \/ BackKey
  \/ QuitKey
  \/ FocusReturn
  \/ Exit
  \/ OtherKey

SpecNav == InitNav /\ [][NextNav]_vars

\* ---- priorities: every tree of up to MaxPriorityNodes nodes ----
MaxPriorityNodes == 3

InitPriority ==
  \E n \in 0..MaxPriorityNodes :
    \E par \in [1..n -> 0..n] :
      /\ \A i \in 1..n : par[i] < i
      /\ RunningOn(TreeOf(n, par, [i \in 1..n |->
                                     [task |-> << "a" >>, complete |-> FALSE,
                                      priority |-> None]]),
                   None)

NextPriority ==
  \/ ListTasks
  \/ UpKey
  \/ DownKey
  \/ IncreaseKey
  \/ DecreaseKey
  \/ FocusKey
  \/ BackKey
  \/ FocusReturn

SpecPriority == InitPriority /\ [][NextPriority]_vars

\* ---- a session: two tasks, a sub-task of the first, a priority, a sort ----
BuyMilk == << "B", "u", "y", " ", "m", "i", "l", "k" >>

CleanHouse == << "C", "l", "e", "a", "n", " ", "h", "o", "u", "s", "e" >>

TwoPercentMilk == << "2", "%", " ", "m", "i", "l", "k" >>

\* the texts in the order in which they are entered
ScenarioTexts == << BuyMilk, CleanHouse, TwoPercentMilk >>

ScenarioChars ==
  UNION {{ScenarioTexts[i][k] : k \in 1..Len(ScenarioTexts[i])} :
           i \in 1..Len(ScenarioTexts)}

\* the text to enter next
NextText ==
  IF NodeCount < Len(ScenarioTexts) THEN ScenarioTexts[NodeCount + 1] ELSE << >>

IsPrefix(a, b) == Len(a) <= Len(b) /\ SubSeq(b, 1, Len(a)) = a

\* the first task has been taken up to High
BuyMilkIsHigh == NodeCount = 3 /\ todo[1].priority = Some("High")

InitScenario ==
  RunningOn(TreeOf(0, << >>, << >>), None)

\* the keys of the session in their order; a text is typed at the end of
\* the line, with the cursor moved about and characters taken back at will
NextScenario ==
  \/ ListTasks
  \/ ((NodeCount < 2 /\ root) \/ (NodeCount = 2 /\ ~root)) /\ AddKey
  \/ \E ch \in ScenarioChars :
       /\ index = ByteLen(entry)
       /\ IsPrefix(Append(entry, ch), NextText)
       /\ DlgChar(ch)
  \/ index = ByteLen(entry) /\ DlgBackspace
  \/ DlgLeft
  \/ DlgRight
  \/ NodeCount < Len(ScenarioTexts) /\ entry = NextText /\ DlgEnter
  \/ NodeCount = 2 /\ root /\ selection = Some(1) /\ UpKey
  \/ NodeCount = 2 /\ root /\ selection = Some(0) /\ FocusKey
  \/ NodeCount = 3 /\ ~root /\ BackKey
  \/ FocusReturn
  \/ NodeCount = 3 /\ root /\ ~BuyMilkIsHigh /\ IncreaseKey
  \/ root /\ BuyMilkIsHigh /\ fs["arg"] = Some(<< >>) /\ SortKey
  \/ root /\ BuyMilkIsHigh /\ fs["arg"] = Some(<< >>) /\ SaveKey("ok")
  \/ fs["arg"] # Some(<< >>) /\ QuitKey
  \/ Exit

SpecScenario == InitScenario /\ [][NextScenario]_vars

\* ---- deleting: every tree of up to MaxPopupNodes nodes, the default keys
\* and a configuration file that binds back to another character ----
MaxPopupNodes == 3

PopupConfigs == {ConfigDefault, [ConfigDefault EXCEPT !.back = "h"]}

InitPopup ==
  \E n \in 0..MaxPopupNodes, cfg \in PopupConfigs :
    \E par \in [1..n -> 0..n] :
      /\ \A i \in 1..n : par[i] < i
      /\ RunningWith(cfg,
                     TreeOf(n, par, [i \in 1..n |->
                                       [task |-> << "a" >>, complete |-> FALSE,
                                        priority |-> None]]),
                     None)

NextPopup ==
  \/ ListTasks
  \/ UpKey
  \/ DownKey
  \/ DeleteKey
  \/ PopupYes
  \/ \E key \in PopupKeys : PopupNo(key)
  \/ \E key \in PopupKeys : PopupOther(key)
  \/ FocusKey
  \/ BackKey
  \/ FocusReturn

SpecPopup == InitPopup /\ [][NextPopup]_vars

\* ---- the selection: the whole program, started on a file whose load
\* leaves a selection behind the end of the root's sub-tasks, on a file
\* that is malformed in its first line or in its second, or on none ----
SelectFiles ==
  { Join(<< << "[", " ", "]", " ", "(", " ", ")", " ", "a" >>,
            Repeat(<< " " >>, TabWidth)
              \o << "[", " ", "]", " ", "(", " ", ")", " ", "a" >>,
            Repeat(<< " " >>, TabWidth)
              \o << "[", "X", "]", " ", "(", "C", ")", " ", "a" >> >>),
    Join(<< Repeat(<< " " >>, TabWidth)
              \o << "[", " ", "]", " ", "(", " ", ")", " ", "a" >> >>),
    Join(<< << "[", " ", "]", " ", "(", "B", ")", " ", "a" >>,
            Repeat(<< " " >>, 2 * TabWidth)
              \o << "[", " ", "]", " ", "(", " ", ")", " ", "a" >> >>) }

InitSelect ==
  \E f \in {None} \cup {Some(c) : c \in SelectFiles} :
    InitIn([ArgEnv EXCEPT !.fs["arg"] = f])

SpecSelect == InitSelect /\ [][Next]_vars

\* ---- decoding: every file of up to MaxDecodeLines well-formed lines
\* behind any number of leading spaces ----
MaxDecodeLines == 4

DecodeIndents == {0, 1, 3, 4, 6, 8}

DecodeBodies ==
  { << "[", " ", "]", " ", "(", " ", ")", " ", "a" >>,
    << "[", "X", "]", " ", "(", "A", ")", " " >> }

DecodeLines ==
  {Repeat(<< " " >>, k) \o b : k \in DecodeIndents, b \in DecodeBodies}

InitDecode ==
  \E ls \in SeqsUpTo(DecodeLines, MaxDecodeLines) :
    InitIn([ArgEnv EXCEPT !.fs["arg"] = Some(Join(ls))])

NextDecode ==
  \/ ViewNewFromSave
  \/ ListTasks

SpecDecode == InitDecode /\ [][NextDecode]_vars

\* ---- moving tasks: every tree of up to MaxMoveNodes nodes ----
MaxMoveNodes == 4

InitMove ==
  \E n \in 0..MaxMoveNodes :
    \E par \in [1..n -> 0..n] :
      /\ \A i \in 1..n : par[i] < i
      /\ RunningOn(TreeOf(n, par, [i \in 1..n |->
                                     [task |-> << "a" >>, complete |-> FALSE,
                                      priority |-> None]]),
                   None)

NextMove ==
  \/ ListTasks
  \/ UpKey
  \/ DownKey
  \/ TaskUpKey
  \/ TaskDownKey
  \/ FocusKey
  \/ BackKey
  \/ FocusReturn

SpecMove == InitMove /\ [][NextMove]_vars

\* ---- saving after a load: every file of up to MaxReloadLines lines ----
MaxReloadLines == 2

MaxReloadNodes == 2

ReloadOutcomes == {"ok", "create_err", "write_err"}

InitReload ==
  \E ls \in SeqsUpTo(LoadLines, MaxReloadLines) :
    InitIn([ArgEnv EXCEPT !.fs["arg"] = Some(Join(ls))])

NextReload ==
  \/ ViewNewFromSave
  \/ ListTasks
  \/ \E outcome \in ReloadOutcomes : SaveKey(outcome)
  \/ NodeCount < MaxReloadNodes /\ AddKey
  \/ \E ch \in SpecChars : Len(entry) < MaxLen /\ nchars < MaxCols /\ DlgChar(ch)
  \/ DlgEnter

SpecReload == InitReload /\ [][NextReload]_vars

\* ---- the end of stdin: after EndOfStream every getch returns None ----
MaxEofNodes == 2

InitEof ==
  \E n \in 0..MaxEofNodes :
    \E par \in [1..n -> 0..n] :
      /\ \A i \in 1..n : par[i] < i
      /\ RunningOn(TreeOf(n, par, [i \in 1..n |->
                                     [task |-> << "a" >>, complete |-> FALSE,
                                      priority |-> None]]),
                   None)

NextEof ==
  \/ ListTasks
  \/ FocusReturn
  \/ Exit
  \/ EndOfStream
  \/ eof /\ OtherKey
  \/ eof /\ DlgOther
  \/ eof /\ PopupOther(NoKey)
  \/ ~eof /\ QuitKey
  \/ ~eof /\ BackKey
  \/ ~eof /\ UpKey
  \/ ~eof /\ DownKey
  \/ ~eof /\ FocusKey
  \/ ~eof /\ NodeCount < MaxEofNodes /\ AddKey
  \/ ~eof /\ EditKey
  \/ ~eof /\ DeleteKey
  \/ ~eof /\ PopupYes
  \/ ~eof /\ PopupNo("n")
  \/ ~eof /\ Len(entry) < MaxLen /\ DlgChar("a")
  \/ ~eof /\ DlgEnter

SpecEof == InitEof /\ [][NextEof]_vars

\* ---- the header line: every tree of up to MaxPathNodes nodes with the
\* texts of PathTexts ----
MaxPathNodes == 3

PathTexts == { << "a" >>, << "b", "c" >> }

InitPath ==
  \E n \in 0..MaxPathNodes :
    \E par \in [1..n -> 0..n], text \in [1..n -> PathTexts] :
      /\ \A i \in 1..n : par[i] < i
      /\ RunningOn(TreeOf(n, par, [i \in 1..n |->
                                     [task |-> text[i], complete |-> FALSE,
                                      priority |-> None]]),
                   None)

NextPath ==
  \/ ListTasks
  \/ UpKey
  \/ DownKey
  \/ FocusKey
  \/ BackKey
  \/ FocusReturn

SpecPath == InitPath /\ [][NextPath]_vars

(***************************************************************************)
(* Properties                                                               *)
(***************************************************************************)
RECURSIVE Shape(_, _)
\* the tree below node id without the ids: fields and sub-trees in order
Shape(t, id) ==
  [task |-> t[id].task, complete |-> t[id].complete,
   priority |-> t[id].priority,
   kids |-> [k \in 1..Len(t[id].sub_tasks) |-> Shape(t, t[id].sub_tasks[k])]]

\* every sub-task's parent refers to the node that lists it
ParentsAgree(t) ==
  \A id \in DOMAIN t : \A k \in 1..Len(t[id].sub_tasks) :
    t[id].sub_tasks[k] \in DOMAIN t /\ t[t[id].sub_tasks[k]].parent = Some(id)

\* C1: round trip.  What save writes for the tree, new_from_save decodes
\* without an error into a tree of the same shape: the same texts, complete
\* flags and priorities, the same sub-tasks in the same order.
C1_RoundTrip ==
  pc \in {"render", "getch", "return", "done"} =>
    LET r == RootOf(todo, current_task)
        d == new_from_save(all_to_string(todo, r, 0))
    IN  /\ d.res = "Ok"
        /\ Shape(d.view.todo, d.view.current_task) = Shape(todo, r)
        /\ ParentsAgree(d.view.todo)

\* a saved tree with a sub-sub-task, an empty text, and a task behind them
\* two levels up
C1_Witness ==
  /\ DOMAIN todo = 0..4
  /\ SubTasks(0) = << 1, 4 >> /\ SubTasks(1) = << 2 >> /\ SubTasks(2) = << 3 >>
  /\ todo[3].task = << >>
  /\ todo[2].task = << " ", "X" >>
  /\ todo[4].complete
  /\ fs["arg"] = Some(all_to_string(todo, 0, 0))

\* the outcome of loading the file main has found
LoadResult == new_from_save(Unwrap(fs[Unwrap(look_for_save)]))

\* the lines of the file main has found
LoadedLines == Lines(Unwrap(fs[Unwrap(look_for_save)]))

\* C2: after a load that fails with MalformedSave the View is that of a
\* fresh start: one root without sub-tasks, root view, nothing selected.
C2_FailedLoadIsFresh ==
  [][(pc = "main" /\ IsSome(look_for_save) /\ LoadResult.res = "Err"
      /\ pc' = "render")
     => /\ DOMAIN todo' = {current_task'}
        /\ todo'[current_task'] = ToDoNew(<< >>, None)
        /\ root'
        /\ selection' = None]_vars

\* C3: list_tasks with a selection that is no index of the sub-tasks (also
\* when there is no sub-task) resets the selection and does not fail.
C3_StaleSelectionReset ==
  [][(pc = "render" /\ IsSome(selection)
      /\ Unwrap(selection) >= Len(SubTasks(current_task)))
     => (pc' = "getch" /\ selection' = None)]_vars

\* C4: a line of fewer than 8 characters behind its indentation (also an
\* empty line) does not make loading fail.
C4_ShortLineDecodes ==
  [][(pc = "main" /\ IsSome(look_for_save)
      /\ \E i \in 1..Len(LoadedLines) :
           ByteLen(TrimStart(LoadedLines[i])) < MarkerLen)
     => pc' # "panic"]_vars

\* the depths of the lines are illegal: the first line is indented, or a
\* line is more than one level deeper than the line before it
BadDepths(lines) ==
  \/ lines # << >> /\ tab_num(lines[1]) >= 1
  \/ \E i \in 2..Len(lines) : tab_num(lines[i]) > tab_num(lines[i - 1]) + 1

\* C5: loading fails with MalformedSave exactly when the depths of the lines
\* are illegal, and succeeds for every other file.
C5_ErrIffBadDepths ==
  [][(pc = "main" /\ IsSome(look_for_save))
     => /\ (LoadResult.res = "Err") <=> BadDepths(LoadedLines)
        /\ ~BadDepths(LoadedLines) => pc' = "render"]_vars

\* the 1-based place of x in sequence s
PlaceIn(s, x) == CHOOSE i \in 1..Len(s) : s[i] = x

\* C6: sort permutes the sub-tasks of current_task into descending priority
\* (None < Low < Medium < High), sub-tasks of equal priority keep their
\* order, and no node changes otherwise.
C6_SortStable ==
  [][SortKey =>
       LET before == SubTasks(current_task)
           after == todo'[current_task].sub_tasks
           rank(x) == PriorityRank(todo[x].priority)
       IN  /\ Len(after) = Len(before)
           /\ {after[i] : i \in 1..Len(after)}
                = {before[i] : i \in 1..Len(before)}
           /\ \A i, j \in 1..Len(after) :
                i < j => /\ rank(after[i]) >= rank(after[j])
                         /\ rank(after[i]) = rank(after[j])
                              => PlaceIn(before, after[i])
                                   < PlaceIn(before, after[j])
           /\ DOMAIN todo' = DOMAIN todo
           /\ \A id \in DOMAIN todo :
                todo'[id] = [todo[id] EXCEPT
                               !.sub_tasks = IF id = current_task THEN after
                                             ELSE @]]_vars

\* the sub-tasks None, High, Medium, High, None (created in this order as
\* nodes 1 to 5) after the sort
C6_Witness ==
  /\ pc = "render"
  /\ SubTasks(0) = << 2, 4, 3, 1, 5 >>
  /\ todo[1].priority = None /\ todo[5].priority = None
  /\ todo[2].priority = Some("High") /\ todo[4].priority = Some("High")
  /\ todo[3].priority = Some("Medium")

\* C7: backspace with the cursor at the start of a text that is not empty
\* changes neither the text nor the cursor nor the width counter.
C7_BackspaceAtStart ==
  [][(DlgBackspace /\ index = 0 /\ entry # << >>)
     => UNCHANGED << entry, index, chars, nchars >>]_vars

\* C8: a character of b bytes and w columns typed at the cursor and then a
\* backspace: the whole character is gone again, text and byte offset are as
\* before, and the backspace moves the column back by w.
C8_InsertThenBackspace ==
  pc = "dialogue" =>
    \A ch \in EdChars :
      IsSome(CharWidth(ch)) =>
        LET typed == OnChar(Locals, ch)
            erased == OnBackspace(typed)
        IN  /\ ~typed.panic /\ ~erased.panic
            /\ typed.index = index + Utf8Len(ch)
            /\ erased.entry = entry
            /\ erased.index = index
            /\ erased.chars = typed.chars - Unwrap(CharWidth(ch))

\* a 3-byte, 2-column character has been typed inside a text
C8_Witness ==
  /\ pc = "dialogue"
  /\ entry = << "a", "zh", "a" >>
  /\ index = 4
  /\ chars = 3

\* C9: with a path argument, that path is the save file: a save never
\* writes the default file.
C9_ArgumentIsSavePath ==
  [][IsSome(args) => fs'["default"] = fs["default"]]_vars

\* C10: once quit is read no key is read again: every level of run returns,
\* innermost first, nothing but the view restored by new_focus changes, and
\* main returns.
C10_QuitUnwinds ==
  /\ [](quit => pc \in {"return", "done"})
  /\ [](quit /\ pc = "return" => ENABLED (FocusReturn \/ Exit))
  /\ [][quit =>
          /\ todo' = todo /\ fs' = fs /\ quit'
          /\ IF stack = << >> THEN pc' = "done"
             ELSE stack' = SubSeq(stack, 1, Len(stack) - 1)]_vars

\* quit has been read two levels below the root view
C10_Witness == quit /\ pc = "return" /\ Len(stack) = 2

\* C11: focus on the selected sub-task makes it the current task, outside
\* the root view, with its first sub-task selected if it has one and nothing
\* selected otherwise; new_focus keeps the view it left, nothing touches what
\* it keeps while the focused view runs, and when the focused view returns
\* current_task, selection and root are what they were before the focus.
C11_FocusAndBack ==
  /\ [][(pc = "getch" /\ IsSome(selection) /\ FocusKey) =>
          /\ pc' = "render"
          /\ current_task' = Selected
          /\ root' = FALSE
          /\ selection' = IF SubTasks(Selected) # << >> THEN Some(0) ELSE None
          /\ Len(stack') = Len(stack) + 1
          /\ stack'[Len(stack')].psub_tasks = current_task
          /\ stack'[Len(stack')].previous_selection = selection
          /\ stack'[Len(stack')].previous_root = root]_vars
  /\ [][\A k \in 1..Len(stack) : k <= Len(stack') => stack'[k] = stack[k]]_vars
  /\ [][(pc = "return" /\ stack # << >>) =>
          /\ pc' # "panic"
          /\ current_task' = stack[Len(stack)].psub_tasks
          /\ selection' = stack[Len(stack)].previous_selection
          /\ root' = stack[Len(stack)].previous_root
          /\ stack' = SubSeq(stack, 1, Len(stack) - 1)]_vars

\* back in the root view from a focused view in which the loaded sub-task,
\* complete in the file, was marked incomplete
C11_Witness ==
  /\ pc = "render" /\ stack = << >> /\ root /\ current_task = 0
  /\ selection = Some(0)
  /\ DOMAIN todo = 0..2
  /\ SubTasks(0) = << 1 >> /\ SubTasks(1) = << 2 >>
  /\ todo[2].priority = Some("High") /\ ~todo[2].complete

RECURSIVE ParentAt(_, _, _)
\* the node k parents up from id, None when there are fewer parents
ParentAt(t, id, k) ==
  IF k = 0 THEN Some(id)
  ELSE IF Upgrade(t, t[id].parent) = None THEN None
       ELSE ParentAt(t, Unwrap(t[id].parent), k - 1)

\* C12: the nodes form one tree.  Exactly one node has no parent; every
\* other node is listed exactly once, by the node its parent refers to, and
\* by no other node; no node is its own ancestor.
C12_OneTree ==
  /\ Cardinality({id \in DOMAIN todo : todo[id].parent = None}) = 1
  /\ \A id \in DOMAIN todo :
       IsSome(todo[id].parent) =>
         /\ Unwrap(todo[id].parent) \in DOMAIN todo
         /\ Cardinality({k \in 1..Len(SubTasks(Unwrap(todo[id].parent))) :
                           SubTasks(Unwrap(todo[id].parent))[k] = id}) = 1
  /\ \A p \in DOMAIN todo : \A k \in 1..Len(SubTasks(p)) :
       /\ SubTasks(p)[k] \in DOMAIN todo
       /\ todo[SubTasks(p)[k]].parent = Some(p)
  /\ \A id \in DOMAIN todo : \A k \in 1..Cardinality(DOMAIN todo) :
       ParentAt(todo, id, k) # Some(id)

\* two tasks were added, the second was moved in front of the first and
\* completed
C12_Witness ==
  /\ pc = "render"
  /\ DOMAIN todo = 0..2
  /\ SubTasks(0) = << 2, 1 >>
  /\ todo[2].complete
  /\ todo[1].priority = Some("Low")

\* the node without a parent
TheRoot(t) == CHOOSE id \in DOMAIN t : t[id].parent = None

\* C13: a save that succeeds, in whatever view, leaves in the save file the
\* text of the whole tree below the node without a parent; a save, also one
\* that fails half way, changes nothing of the tree or the view.
C13_SaveWholeTree ==
  /\ [][SaveKey("ok") =>
          \E p \in Paths :
            fs' = [fs EXCEPT ![p] = Some(all_to_string(todo, TheRoot(todo), 0))]]_vars
  /\ [][(pc = "getch" /\ \E o \in SaveOutcomes : SaveKey(o)) =>
          /\ pc' = "render"
          /\ UNCHANGED << todo, current_task, selection, root, stack, quit >>]_vars
  /\ [][fs' # fs => \E o \in SaveOutcomes : SaveKey(o)]_vars

\* saved from the view focused on the first task, which has a sub-task
C13_Witness ==
  /\ pc = "render"
  /\ Len(stack) = 1 /\ current_task = 1
  /\ DOMAIN todo = 0..2
  /\ SubTasks(0) = << 1 >> /\ SubTasks(1) = << 2 >>
  /\ todo[1].task = << "a" >> /\ todo[2].task = << "a" >>
  /\ fs["arg"] = Some(all_to_string(todo, 0, 0))

\* C14: move_selection changes the selection only.  With nothing selected
\* the first sub-task becomes selected if there is one; with sub-task i of n
\* selected, up selects (i - 1) mod n and down selects (i + 1) mod n.
C14_MoveSelection ==
  [][(pc = "getch" /\ (UpKey \/ DownKey)) =>
       LET n == Len(SubTasks(current_task))
       IN  /\ pc' = "render"
           /\ UNCHANGED << todo, current_task, root, stack >>
           /\ selection = None =>
                selection' = IF n >= 1 THEN Some(0) ELSE None
           /\ (IsSome(selection) /\ n >= 1 /\ Unwrap(selection) < n) =>
                /\ UpKey => selection' = Some((Unwrap(selection) - 1) % n)
                /\ DownKey => selection' = Some((Unwrap(selection) + 1) % n)]_vars

\* the last of three sub-tasks is selected: up from the first, or down from
\* the second
C14_Witness ==
  /\ pc = "render"
  /\ Len(SubTasks(current_task)) = 3
  /\ selection = Some(2)

\* C15: increase_priority takes the selected sub-task one step up the ladder
\* None, Low, Medium, High and leaves High alone; decrease_priority takes it
\* one step down and leaves None alone; three steps lead from one end to the
\* other and no fewer; nothing else changes.
C15_PriorityLadder ==
  /\ [](\A p \in Priorities :
         /\ PriorityRank(Increased(p))
              = (IF PriorityRank(p) = 3 THEN 3 ELSE PriorityRank(p) + 1)
         /\ PriorityRank(Decreased(p))
              = (IF PriorityRank(p) = 0 THEN 0 ELSE PriorityRank(p) - 1))
  /\ [](/\ Increased(Increased(None)) # Some("High")
        /\ Increased(Increased(Increased(None))) = Some("High")
        /\ Increased(Increased(Increased(Increased(None)))) = Some("High")
        /\ Decreased(Decreased(Some("High"))) # None
        /\ Decreased(Decreased(Decreased(Some("High")))) = None
        /\ Decreased(Decreased(Decreased(Decreased(Some("High"))))) = None)
  /\ [][(pc = "getch" /\ IsSome(selection) /\ (IncreaseKey \/ DecreaseKey)) =>
          /\ pc' = "render"
          /\ UNCHANGED << current_task, selection, root, stack >>
          /\ DOMAIN todo' = DOMAIN todo
          /\ \A id \in DOMAIN todo :
               todo'[id] = [todo[id] EXCEPT !.priority =
                              IF id # Selected THEN @
                              ELSE IF IncreaseKey THEN Increased(@)
                                   ELSE Decreased(@)]]_vars

\* the second of two sub-tasks has been taken up to High, the first is as
\* it was
C15_Witness ==
  /\ pc = "render"
  /\ SubTasks(0) = << 1, 2 >>
  /\ selection = Some(1)
  /\ todo[1].priority = None
  /\ todo[2].priority = Some("High")

\* the three lines of the saved session
ScenarioLines ==
  << "[", " ", "]", " ", "(", "A", ")", " " >> \o BuyMilk \o << "\n" >>
  \o << " ", " ", " ", " " >>
  \o << "[", " ", "]", " ", "(", " ", ")", " " >> \o TwoPercentMilk \o << "\n" >>
  \o << "[", " ", "]", " ", "(", " ", ")", " " >> \o CleanHouse \o << "\n" >>

\* C16: the session add "Buy milk", add "Clean house", focus on "Buy milk",
\* add "2% milk", back, "Buy milk" up to High, sort, leaves a tree whose text
\* is the line of "Buy milk" with (A), the line of "2% milk" indented by four
\* spaces, and the line of "Clean house"; the save file holds nothing else.
C16_Scenario ==
  /\ fs["arg"] \in {Some(<< >>), Some(ScenarioLines)}
  /\ (root /\ BuyMilkIsHigh /\ pc \in {"render", "getch"}) =>
       all_to_string(sort_by_priority(todo, current_task), current_task, 0)
         = ScenarioLines
  /\ pc = "done" => fs["arg"] = Some(ScenarioLines)

\* the session has been saved and left
C16_Witness ==
  /\ pc = "done"
  /\ fs["arg"] = Some(ScenarioLines)

\* C17: in the popup of remove_task y alone confirms; n, q and the key bound
\* to back cancel, and a cancel changes neither the sub-tasks nor the
\* selection; on any other key the popup reads the next key.
C17_PromptKeys ==
  /\ [](pc = "popup" =>
         /\ \A key \in PopupKeys : popup(key) = "true" <=> key = "y"
         /\ \A key \in {"n", "q", config.back} : popup(key) = "false"
         /\ \A key \in PopupKeys \ {"y", "n", "q", config.back} :
              popup(key) = "loop")
  /\ [][(pc = "popup" /\ \E key \in PopupKeys : PopupNo(key)) =>
          /\ pc' = "render"
          /\ UNCHANGED << todo, current_task, selection, root >>]_vars
  /\ [][(pc = "popup" /\ todo' # todo) => PopupYes]_vars

\* C18: back changes nothing of the tree or the view.  In the root view the
\* loop of run goes on; in a focused view the loop is left, one call of
\* new_focus returns, and the loop of the view above goes on.
C18_Back ==
  /\ [](~root => stack # << >>)
  /\ [][(pc = "getch" /\ BackKey) =>
          /\ UNCHANGED << todo, current_task, selection, root, stack, quit, fs >>
          /\ pc' = IF root THEN "render" ELSE "return"]_vars
  /\ [][(pc = "return" /\ ~quit) =>
          /\ pc' = "render"
          /\ stack' = SubSeq(stack, 1, Len(stack) - 1)]_vars

\* back has been read in a view two levels below the root view
C18_Witness == pc = "return" /\ ~quit /\ Len(stack) = 2

\* C19: with nothing selected, edit, complete, delete, move up and down,
\* increase, decrease and focus change nothing and open neither the dialogue
\* nor the popup: the loop of run goes on.
C19_NothingSelected ==
  [][(/\ pc = "getch"
      /\ selection = None
      /\ \/ EditKey \/ CompleteKey \/ DeleteKey \/ TaskUpKey \/ TaskDownKey
         \/ IncreaseKey \/ DecreaseKey \/ FocusKey) =>
       /\ pc' = "render"
       /\ UNCHANGED << todo, current_task, selection, root, stack, quit, fs,
                       save_file, dlgVars >>]_vars

\* a key is read with nothing selected, in a view that has a sub-task, after
\* another sub-task was deleted
C19_Witness ==
  /\ pc = "getch"
  /\ selection = None
  /\ SubTasks(current_task) # << >>
  /\ DOMAIN todo # 0..NodeCount

\* C20: whenever run reads a key, and whenever the dialogue of edit_task or
\* the popup of remove_task is open, the selection is None or an index of
\* the sub-tasks of current_task.
C20_SelectionInRange ==
  (pc \in {"getch", "popup"} \/ (pc = "dialogue" /\ dlg = "edit")) =>
    (selection = None \/ InRange)

\* a key is read after a load that left the second sub-task of a sub-task
\* selected, in the root view with its one sub-task: list_tasks has reset the
\* selection
C20_Witness ==
  /\ pc = "getch"
  /\ root /\ current_task = 0
  /\ DOMAIN todo = 0..3
  /\ SubTasks(0) = << 1 >> /\ SubTasks(1) = << 2, 3 >>
  /\ selection = None

\* the nodes below r, r left out
Descendants(t, r) == Subtree(t, r) \ {r}

RECURSIVE SelfAndAbove(_, _)
\* x and the nodes above it
SelfAndAbove(t, x) ==
  {x} \cup (IF Upgrade(t, t[x].parent) = None THEN {}
            ELSE SelfAndAbove(t, Unwrap(t[x].parent)))

\* the number of nodes between x and r, for x below r
DepthBelow(t, r, x) ==
  Cardinality(SelfAndAbove(t, x) \ SelfAndAbove(t, r)) - 1

\* y comes in front of x in depth-first pre-order: y is above x, or where
\* their branches part, the branch of y is listed first
PreOrderBefore(t, y, x) ==
  LET ups == SelfAndAbove(t, x)
      upsy == SelfAndAbove(t, y)
  IN  /\ y # x
      /\ \/ y \in ups
         \/ \E a \in ups \cap upsy :
              \E i, j \in 1..Len(t[a].sub_tasks) :
                /\ i < j
                /\ t[a].sub_tasks[i] \in upsy
                /\ t[a].sub_tasks[j] \in ups

\* the line of node n at depth d
LineOf(n, d) ==
  Repeat(<< " " >>, 4 * d)
  \o << "[", (IF n.complete THEN "X" ELSE " "), "]", " " >>
  \o << "(", (CASE n.priority = Some("High") -> "A"
                 [] n.priority = Some("Medium") -> "B"
                 [] n.priority = Some("Low") -> "C"
                 [] n.priority = None -> " "), ")", " " >>
  \o n.task \o << "\n" >>

RECURSIVE Flatten(_)
Flatten(ss) == IF ss = << >> THEN << >> ELSE Head(ss) \o Flatten(Tail(ss))

\* one line for each node below r, in depth-first pre-order
LinesBelow(t, r) ==
  LET D == Descendants(t, r)
      at(i) == CHOOSE x \in D :
                 Cardinality({y \in D : PreOrderBefore(t, y, x)}) = i - 1
  IN  Flatten([i \in 1..Cardinality(D) |->
                 LET x == at(i) IN LineOf(t[x], DepthBelow(t, r, x))])

\* C21: the text of a node is one line for each node below it, in
\* depth-first pre-order, a line being four spaces for each level below the
\* node's sub-tasks, the complete marker, the priority marker, the text and a
\* newline; the node itself has no line.  Stated of the node save starts at.
C21_OneLinePerDescendant ==
  LET r == TheRoot(todo)
  IN  all_to_string(todo, r, 0) = LinesBelow(todo, r)

\* saved: a task with a sub-task that has a sub-task, and a task behind them
C21_Witness ==
  /\ pc = "render"
  /\ DOMAIN todo = 0..4
  /\ SubTasks(0) = << 1, 4 >> /\ SubTasks(1) = << 2 >> /\ SubTasks(2) = << 3 >>
  /\ todo[3].priority = Some("Medium") /\ todo[4].priority = Some("Low")
  /\ todo[1].complete /\ ~todo[2].complete
  /\ fs["arg"] = Some(LinesBelow(todo, 0))

\* the 1-based number of the line under which line i of the file belongs: the
\* nearest line in front of it that is one level less deep; 0 (the root) for
\* a line at depth 0
LineAbove(lines, i) ==
  IF tab_num(lines[i]) = 0 THEN 0
  ELSE CHOOSE j \in 1..(i - 1) :
         /\ tab_num(lines[j]) = tab_num(lines[i]) - 1
         /\ \A k \in (j + 1)..(i - 1) : tab_num(lines[k]) # tab_num(lines[i]) - 1

\* C22: a load that succeeds makes one node for each line, in the order of
\* the lines (node i for line i).  The node of a line at depth d is the last
\* sub-task, at that moment, of the node of the nearest line in front of it
\* at depth d - 1, or of the root for d = 0: sub-tasks are in the order of
\* their lines, and a node has as many parents below the root as its line
\* is deep.
C22_LinesToTree ==
  (pc = "main" /\ IsSome(look_for_save) /\ LoadResult.res = "Ok") =>
    LET r == LoadResult
        t == r.view.todo
        lines == LoadedLines
    IN  /\ r.view.current_task = 0
        /\ DOMAIN t = 0..Len(lines)
        /\ t[0].parent = None
        /\ \A i \in 1..Len(lines) :
             /\ t[i].parent = Some(LineAbove(lines, i))
             /\ ParentAt(t, i, tab_num(lines[i]) + 1) = Some(0)
        /\ \A p \in 0..Len(lines) :
             t[p].sub_tasks =
               Ascending({i \in 1..Len(lines) : LineAbove(lines, i) = p})

\* loaded: lines at the depths 0, 1, 2, 0, the last one a step of two
\* levels back to the root
C22_Witness ==
  /\ pc = "render"
  /\ DOMAIN todo = 0..4
  /\ SubTasks(0) = << 1, 4 >> /\ SubTasks(1) = << 2 >> /\ SubTasks(2) = << 3 >>
  /\ todo[4].parent = Some(0)
  /\ fs["arg"] # Some(all_to_string(todo, 0, 0))

\* line with its leading spaces cut down to whole groups of four
WholeTabs(line) == SubSeq(line, (LeadingSpaces(line) % 4) + 1, Len(line))

\* C23: the leading spaces of a line beyond whole groups of four change
\* nothing: the file loads as the file without them does, and where it
\* loads, each line is its leading spaces followed by the text form of its
\* node, so none of them is part of the task.  A first line with one to
\* three leading spaces is accepted, at depth 0.
C23_StraySpaces ==
  (pc = "main" /\ IsSome(look_for_save)) =>
    LET r == LoadResult
        lines == LoadedLines
        whole == [i \in 1..Len(lines) |-> WholeTabs(lines[i])]
    IN  /\ r = new_from_save(Join(whole))
        /\ \A i \in 1..Len(lines) :
             tab_num(lines[i]) = LeadingSpaces(lines[i]) \div 4
        /\ r.res = "Ok" =>
             \A i \in 1..Len(lines) :
               lines[i] \o << "\n" >>
                 = Repeat(<< " " >>, LeadingSpaces(lines[i]))
                   \o to_string(r.view.todo[i])
        /\ (Len(lines) = 1 /\ LeadingSpaces(lines[1]) \in 1..3) =>
             /\ r.res = "Ok"
             /\ r.view.todo[0].sub_tasks = << 1 >>

\* loaded: a first line with three leading spaces and a line with six under
\* it; the file is not what save would write
C23_Witness ==
  /\ pc = "render"
  /\ Len(LoadedLines) = 2
  /\ LeadingSpaces(LoadedLines[1]) = 3 /\ LeadingSpaces(LoadedLines[2]) = 6
  /\ DOMAIN todo = 0..2
  /\ SubTasks(0) = << 1 >> /\ SubTasks(1) = << 2 >>
  /\ todo[1].task = << "a" >> /\ todo[2].task = << >>

\* the display width of a character, none for a character without one
ColumnsOf(ch) == IF IsSome(CharWidth(ch)) THEN Unwrap(CharWidth(ch)) ELSE 0

\* C24: any character typed into the dialogue, a control character or one
\* without width included, goes into the text at the cursor, between what
\* was in front of the cursor and what was behind it; the byte offset grows
\* by its length in bytes, the column and the width counter by its display
\* width; the dialogue does not fail.
C24_InsertAnyChar ==
  pc = "dialogue" =>
    \A ch \in EdChars :
      LET typed == OnChar(Locals, ch)
          k == CharsBefore(entry, index)
      IN  /\ ~typed.panic
          /\ typed.entry = SubSeq(entry, 1, k) \o << ch >>
                             \o SubSeq(entry, k + 1, Len(entry))
          /\ typed.index = index + Utf8Len(ch)
          /\ typed.chars = chars + ColumnsOf(ch)
          /\ typed.nchars = nchars + ColumnsOf(ch)

\* C25: while the dialogue is open the cursor is a byte offset between 0
\* and the length of the text in bytes, at the start of a character or at
\* the end, and the column is the display width of the text in front of it.
C25_CursorInvariant ==
  pc = "dialogue" =>
    /\ 0 <= index /\ index <= ByteLen(entry)
    /\ IsCharBoundary(entry, index)
    /\ chars = StrWidth(SubSeq(entry, 1, CharsBefore(entry, index)))

\* the cursor stands between a 3-byte, 2-column character and a 2-byte
\* character without width, which was typed in front of the seed text
C25_Witness ==
  /\ pc = "dialogue"
  /\ todo[1].task = << "a" >>
  /\ entry = << "zh", "cm", "a" >>
  /\ index = 3
  /\ chars = 2

\* sequence s with the entries at the 0-based places i and j exchanged
Exchanged(s, i, j) ==
  [k \in 1..Len(s) |-> IF k = i + 1 THEN s[j + 1]
                        ELSE IF k = j + 1 THEN s[i + 1] ELSE s[k]]

\* C26: with sub-task i of n selected, move up exchanges the sub-tasks i
\* and (i - 1) mod n, move down the sub-tasks i and (i + 1) mod n; the
\* selection goes with the moved task and nothing else changes.
C26_MoveTask ==
  [][(pc = "getch" /\ IsSome(selection) /\ (TaskUpKey \/ TaskDownKey)) =>
       LET n == Len(SubTasks(current_task))
           i == Unwrap(selection)
           moved(j) ==
             /\ todo' = [todo EXCEPT ![current_task].sub_tasks =
                           Exchanged(SubTasks(current_task), i, j)]
             /\ selection' = Some(j)
             /\ todo'[current_task].sub_tasks[j + 1] = Selected
       IN  /\ pc' = "render"
           /\ UNCHANGED << current_task, root, stack, fs, quit >>
           /\ TaskUpKey => moved((i - 1) % n)
           /\ TaskDownKey => moved((i + 1) % n)]_vars

\* the first of three sub-tasks has been moved up: it is the last now, and
\* selected
C26_Witness ==
  /\ pc = "render"
  /\ current_task = 0
  /\ SubTasks(0) = << 3, 2, 1 >>
  /\ selection = Some(2)

\* the nodes of t that some node lists, directly or through others, from x on
Reachable(t, x) ==
  {y \in DOMAIN t : \E k \in 0..Cardinality(DOMAIN t) : ParentAt(t, y, k) = Some(x)}

\* C27: y in the popup of remove_task takes the selected sub-task out of
\* the sub-tasks of current_task, the others keeping their order, and
\* nothing is selected; the node and every node below it are gone, no other
\* node changes, and no sub-task list refers to a node that is gone.
C27_DeleteSubtree ==
  [][(pc = "popup" /\ PopupYes) =>
       LET i == Unwrap(selection)
           subs == SubTasks(current_task)
           gone == Reachable(todo, subs[i + 1])
       IN  /\ pc' = "render"
           /\ selection' = None
           /\ UNCHANGED << current_task, root, stack >>
           /\ DOMAIN todo' = DOMAIN todo \ gone
           /\ todo'[current_task].sub_tasks
                = [k \in 1..(Len(subs) - 1) |->
                     IF k <= i THEN subs[k] ELSE subs[k + 1]]
           /\ \A id \in DOMAIN todo' :
                /\ id # current_task => todo'[id] = todo[id]
                /\ todo'[id] = [todo[id] EXCEPT
                                  !.sub_tasks = todo'[id].sub_tasks]
                /\ \A k \in 1..Len(todo'[id].sub_tasks) :
                     todo'[id].sub_tasks[k] \notin gone
           /\ Reachable(todo', TheRoot(todo')) = DOMAIN todo']_vars

\* the first task, which had a sub-task, has been deleted; the task behind
\* it is left
C27_Witness ==
  /\ pc = "render"
  /\ DOMAIN todo = {0, 3}
  /\ SubTasks(0) = << 3 >>
  /\ selection = None

\* C28: the text entered in the dialogue of add_task_from_input becomes one
\* new node, the last sub-task of current_task: not complete, without
\* priority, without sub-tasks, its parent current_task.  It is selected, and
\* no other node and no other sub-task changes.
C28_AddAppends ==
  [][(pc = "dialogue" /\ dlg = "add" /\ DlgEnter) =>
       /\ pc' = "render"
       /\ UNCHANGED << current_task, root, stack >>
       /\ \E id \in DOMAIN todo' \ DOMAIN todo :
            /\ DOMAIN todo' = DOMAIN todo \cup {id}
            /\ todo'[id] = [task |-> entry, complete |-> FALSE,
                            priority |-> None, parent |-> Some(current_task),
                            sub_tasks |-> << >>]
            /\ todo'[current_task].sub_tasks
                 = SubTasks(current_task) \o << id >>
            /\ \A x \in DOMAIN todo :
                 todo'[x] = [todo[x] EXCEPT !.sub_tasks = todo'[x].sub_tasks]
            /\ \A x \in DOMAIN todo \ {current_task} : todo'[x] = todo[x]
            /\ selection' = Some(Len(SubTasks(current_task)))]_vars

\* a task with a text has been added behind a task without one, and is
\* selected
C28_Witness ==
  /\ pc = "render"
  /\ root /\ current_task = 0
  /\ DOMAIN todo = 0..2
  /\ SubTasks(0) = << 1, 2 >>
  /\ todo[1].task = << >>
  /\ todo[2].task = << "a" >> /\ todo[2].parent = Some(0)
  /\ selection = Some(1)

\* C29: Delete with the cursor in front of a character takes that character
\* out of the text, whole, and lowers the width counter by its display
\* width; byte offset and column stay.  At the end of the text Delete
\* changes nothing.
C29_DeleteForward ==
  [][(pc = "dialogue" /\ DlgDelete) =>
       LET k == CharsBefore(entry, index)
       IN  /\ pc' = "dialogue"
           /\ index' = index
           /\ chars' = chars
           /\ IF index < ByteLen(entry)
              THEN /\ entry' = SubSeq(entry, 1, k) \o SubSeq(entry, k + 2, Len(entry))
                   /\ nchars' = nchars - ColumnsOf(entry[k + 1])
              ELSE /\ entry' = entry
                   /\ nchars' = nchars]_vars

\* the 3-byte, 2-column character in front of which the cursor stood is
\* gone; the cursor is still behind the first character
C29_Witness ==
  /\ pc = "dialogue"
  /\ todo[1].task = << "a", "zh" >>
  /\ entry = << "a" >>
  /\ index = 1 /\ chars = 1
  /\ nchars = 1

\* C30: Left takes the cursor to the start of the character in front of it
\* and the column back by the width of that character, Right takes it
\* behind the character it stands on and the column on by its width;
\* neither changes the text, Left does nothing at the start and Right
\* nothing at the end, and Right after Left restores offset and column.
C30_LeftRight ==
  /\ [][(pc = "dialogue" /\ DlgLeft) =>
          LET k == CharsBefore(entry, index)
          IN  /\ pc' = "dialogue"
              /\ UNCHANGED << entry, nchars >>
              /\ IF index > 0
                 THEN /\ index' = index - Utf8Len(entry[k])
                      /\ chars' = chars - ColumnsOf(entry[k])
                 ELSE UNCHANGED << index, chars >>]_vars
  /\ [][(pc = "dialogue" /\ DlgRight) =>
          LET k == CharsBefore(entry, index)
          IN  /\ pc' = "dialogue"
              /\ UNCHANGED << entry, nchars >>
              /\ IF index < ByteLen(entry)
                 THEN /\ index' = index + Utf8Len(entry[k + 1])
                      /\ chars' = chars + ColumnsOf(entry[k + 1])
                 ELSE UNCHANGED << index, chars >>]_vars
  /\ [](pc = "dialogue" /\ index > 0 => OnRight(OnLeft(Locals)) = Locals)

\* the cursor stands in front of the 3-byte, 2-column last character of the
\* seed text
C30_Witness ==
  /\ pc = "dialogue"
  /\ todo[1].task = << "cm", "zh" >>
  /\ entry = << "cm", "zh" >>
  /\ index = 2 /\ chars = 0
  /\ nchars = 2

\* C31: the dialogue opened on the selected task starts with that task's
\* text and the cursor at its end (byte offset the byte length, column and
\* width counter the display width); Enter on an untouched text leaves the
\* tree as it was.  Opened for a new task it starts empty with the cursor at
\* 0, and Enter on the untouched dialogue adds a task with the empty text.
C31_OpenAndCommit ==
  /\ [][(EditKey /\ pc' = "dialogue") =>
          LET s == todo[Selected].task
          IN  /\ dlg' = "edit"
              /\ entry' = s
              /\ index' = ByteLen(s)
              /\ chars' = StrWidth(s)
              /\ nchars' = StrWidth(s)]_vars
  /\ [][AddKey =>
          /\ dlg' = "add" /\ pc' = "dialogue"
          /\ entry' = << >>
          /\ index' = 0 /\ chars' = 0 /\ nchars' = 0]_vars
  /\ [][(pc = "dialogue" /\ dlg = "edit" /\ DlgEnter) =>
          /\ pc' = "render"
          /\ todo' = [todo EXCEPT ![Selected].task = entry]
          /\ (entry = todo[Selected].task => todo' = todo)
          /\ UNCHANGED << selection, current_task, root >>]_vars
  /\ [][(pc = "dialogue" /\ dlg = "add" /\ DlgEnter) =>
          \E id \in DOMAIN todo' \ DOMAIN todo : todo'[id].task = entry]_vars

\* the dialogue has just been opened on a text of two characters that takes
\* five bytes and two columns
C31_Witness ==
  /\ pc = "dialogue" /\ dlg = "edit"
  /\ Selected \in DOMAIN todo
  /\ todo[Selected].task = << "zh", "cm" >>
  /\ entry = << "zh", "cm" >>
  /\ index = 5 /\ chars = 2 /\ nchars = 2

RECURSIVE Segments(_, _)
\* the texts from the root down to node id, the root's left out when it is
\* empty
Segments(t, id) ==
  IF Upgrade(t, t[id].parent) = None
  THEN IF t[id].task = << >> THEN << >> ELSE << t[id].task >>
  ELSE Append(Segments(t, Unwrap(t[id].parent)), t[id].task)

RECURSIVE Crumbs(_)
\* the segments segs with ": " between them
Crumbs(segs) ==
  IF segs = << >> THEN << >>
  ELSE IF Len(segs) = 1 THEN Head(segs)
       ELSE Head(segs) \o << ":", " " >> \o Crumbs(Tail(segs))

\* C32: the header of a view is the texts from the root down to the current
\* task, in that order, with ": " between them; the root, whose text is
\* empty, gives no segment, so the header starts with the text of the first
\* task below the root and not with a separator.
C32_Breadcrumb ==
  pc = "getch" => Header = Crumbs(Segments(todo, current_task))

\* C33: once the view is built, root is true exactly when current_task is
\* the node without a parent, and the number of runs nested inside the
\* outermost one is the number of nodes above current_task.
C33_RootAndDepth ==
  pc \notin {"main", "panic"} =>
    /\ root <=> (todo[current_task].parent = None)
    /\ Len(stack) = Cardinality(SelfAndAbove(todo, current_task)) - 1

\* the view two levels down, reached by two focus commands
C33_Witness ==
  /\ pc = "getch"
  /\ ~root
  /\ Len(stack) = 2
  /\ todo[current_task].parent # None
  /\ todo[Unwrap(todo[current_task].parent)].parent # None

\* C34: while the dialogue is open, whatever keys it has read, the width
\* counter nchars is the display width of the text, and the column chars
\* is not beyond it.
C34_WidthCounter ==
  pc = "dialogue" => nchars = StrWidth(entry) /\ chars <= nchars

\* C35: sort changes neither the selected index nor current_task nor root;
\* the index stays where it was also when the task it was on has moved, so
\* it may be on another task afterwards.
C35_SortKeepsIndex ==
  [][SortKey =>
       /\ UNCHANGED << selection, current_task, root >>
       /\ pc' = "render"]_vars

\* the first task was selected; the sort has put the second in front of it,
\* and index 0 is now on that one
C35_Witness ==
  /\ pc = "render"
  /\ selection = Some(0)
  /\ Len(SubTasks(current_task)) >= 2
  /\ SubTasks(current_task)[1] = 2
  /\ \E i \in 2..Len(SubTasks(current_task)) : SubTasks(current_task)[i] = 1

\* C36: once stdin is at its end and no quit has been read, run never
\* leaves its loop: it goes on between list_tasks and getch with the tree,
\* current_task, selection and root as they were, and a popup or a dialogue
\* that was open stays open, with nothing removed, added or edited.
C36_EndOfStream ==
  /\ [](eof => pc \in {"render", "getch", "dialogue", "popup"} /\ ~quit)
  /\ [][eof =>
          /\ eof'
          /\ UNCHANGED << todo, current_task, selection, root, stack, dlg,
                          entry >>
          /\ pc' \in IF pc \in {"render", "getch"} THEN {"render", "getch"}
                      ELSE {pc}]_vars

\* run is back at list_tasks after a read at the end of stdin, in a focused
\* view with a task selected
C36_Witness ==
  /\ eof
  /\ pc = "render"
  /\ ~root
  /\ selection # None

\* C37: a load that fails, because the file cannot be read or because it
\* is malformed, leaves save_file on the file that was to be loaded; a save
\* that succeeds afterwards puts the text of the tree of that moment in that
\* file, which is the empty text when no task has been added.
C37_SaveAfterFailedLoad ==
  /\ [][(pc = "main" /\ ViewNewFromSave) =>
          /\ save_file' = look_for_save
          /\ (LoadResult.res = "Err" => DOMAIN todo' = {current_task'})]_vars
  /\ [](pc # "main" => save_file = Some("arg"))
  /\ [][SaveKey("ok") =>
          /\ fs' = [fs EXCEPT !["arg"] =
                      Some(all_to_string(todo, TheRoot(todo), 0))]
          /\ (DOMAIN todo = {current_task} => fs'["arg"] = << << >> >>)]_vars

\* the root is the one new_from_save made after fill_children had failed,
\* no task has been added, and the file that could not be loaded is empty
C37_Witness ==
  /\ pc = "render"
  /\ current_task # 0
  /\ DOMAIN todo = {current_task}
  /\ fs["arg"] = Some(<< >>)

====
